---- MODULE Spec2Model ----
(***************************************************************************)
(* State-machine model of the AutoClean EEG2Source standalone pipeline     *)
(* (autoclean_standalone.py) and of the per-file loop of process_command   *)
(* (autoclean_eeg2source/cli.py).                                          *)
(*                                                                         *)
(* Units.  Frequencies and sample rates are integers in 1/100 Hz,          *)
(* lambda2 is an integer in 1/1000, durations are integers in ms,          *)
(* amplitude ranges are integers in 1e-9 V.                                *)
(*                                                                         *)
(* JSON values are tagged: Num(n), Str(s), Dict(d), so that the code's     *)
(* isinstance tests and KeyError paths can be followed literally.          *)
(***************************************************************************)
EXTENDS Integers, Sequences, FiniteSets, TLC

VARIABLES
    command,            \* entry point: main() with args.command "process" or "validate",
                        \* "cli" for process_command of cli.py, "check" for a bare
                        \* call of DataLoader._validate_raw_data
    MNE_AVAILABLE,      \* module flag set by the import of mne
    pc,                 \* position of main() / process_command
    exit_code,          \* value returned by main() / process_command (-1: running)
    cfgDisk,            \* the configuration file on disk (input)
    config,             \* ScientificConfigManager.config
    processing_log,     \* ScientificConfigManager.processing_log
    last_error,         \* the exception that ended the last failing operation
    validated,          \* value returned by validate_scientific_parameters
    memory_threshold,   \* StandaloneEEGProcessor.memory_threshold (GB)
    input_path,         \* args.input: kind ("file" | "dir" | "missing") and --recursive
    set_files,          \* the list of .set paths of the run
    suite,              \* the files that the input path may hold
    i,                  \* loop index of process_directory / process_command (1-based)
    fpc,                \* position inside process_single_file for the current file
    cur,                \* the current file: its recording and what its library calls do
    data,               \* the Raw / Epochs object being processed
    forward,            \* value returned by _build_forward_model
    source_estimates,   \* value returned by _compute_inverse_solution
    atlas_timecourses,  \* value returned by _apply_atlas_parcellation
    file_results,       \* value returned by _save_results for the current file
    results,            \* process_directory: results dict, keyed by the path of the file
    failed_files,       \* process_directory: failed_files list
    disk,               \* output directory: artifact name -> content
    rng,                \* state of numpy's global random generator
    warned,             \* warnings.warn calls so far: <<file position, text>>
    validation_metrics, \* DataLoader.validation_metrics
    fileRec,            \* history: file position -> the file that was processed
    attempts,           \* history: file position -> number of process_single_file calls
    outcomes,           \* history: outcomes of the bare _validate_raw_data calls
    cli_results         \* process_command: results list

cfgVars == <<cfgDisk, config, processing_log, last_error, validated, memory_threshold>>
runVars == <<input_path, set_files, suite, i>>
fileVars == <<fpc, cur, data, forward, source_estimates, atlas_timecourses, file_results>>
outVars == <<results, failed_files, disk, rng, warned, validation_metrics>>
histVars == <<fileRec, attempts, outcomes, cli_results>>
vars == <<command, MNE_AVAILABLE, pc, exit_code, cfgVars, runVars, fileVars, outVars, histVars>>

-----------------------------------------------------------------------------
(* Tagged JSON values *)
Num(n) == [t |-> "num", v |-> n]
Str(s) == [t |-> "str", v |-> s]
Dict(d) == [t |-> "dict", v |-> d]
NoneVal == [t |-> "none", v |-> 0]
IsDict(x) == x.t = "dict"
HasKey(x, k) == IsDict(x) /\ k \in DOMAIN x.v

(* Exceptions: Python type, message text, and the number formatted into it *)
Err(type, msg, arg) == [type |-> type, msg |-> msg, arg |-> arg]
NoError == Err("none", "", 0)

(* Log entries of _log_action: (action, details); the timestamp is not modelled *)
Entry(action, details) == [action |-> action, details |-> details]
NoDetails == [none |-> TRUE]

-----------------------------------------------------------------------------
(* Program constants *)
LAMBDA2_MIN == 1
LAMBDA2_MAX == 1000
SRATE_MIN == 5000
SRATE_MAX == 200000

required_sections == <<"scientific_parameters", "processing_parameters", "metadata">>

-----------------------------------------------------------------------------
(* The configuration document: json.load of the file, as a tagged value.   *)
(* A document is described by which sections and keys it holds and by the  *)
(* values of the scientific parameters.                                    *)
ParseConfig(doc) ==
    LET sci == [inverse_solution |-> Dict([lambda2 |-> Num(doc.lambda2)]),
                preprocessing |-> Dict([target_srate |-> Num(doc.target_srate),
                                        highpass_freq |-> Num(doc.highpass_freq),
                                        lowpass_freq |-> Num(doc.lowpass_freq)]),
                montage |-> IF doc.montage = "wrapped"
                            THEN Dict([default |-> Str("standard_1020")])
                            ELSE Str(doc.montage)]
        sciKeys == IF doc.montage = "absent"
                   THEN {"inverse_solution", "preprocessing"}
                   ELSE {"inverse_solution", "preprocessing", "montage"}
        proc == [memory_threshold_gb |-> Num(doc.memory_threshold_gb)]
        procKeys == IF doc.has_memory_threshold THEN {"memory_threshold_gb"} ELSE {}
        all == [scientific_parameters |-> Dict([k \in sciKeys |-> sci[k]]),
                processing_parameters |-> Dict([k \in procKeys |-> proc[k]]),
                metadata |-> Dict([version |-> Str("1.0.0")])]
    IN  Dict([k \in doc.sections |-> all[k]])

(* First required section missing from a parsed document, in the order of *)
(* the code's loop; 0 when none is missing.                               *)
FirstMissing(parsed) ==
    IF \A k \in 1..Len(required_sections) : HasKey(parsed, required_sections[k])
    THEN 0
    ELSE CHOOSE k \in 1..Len(required_sections) :
            /\ ~HasKey(parsed, required_sections[k])
            /\ \A j \in 1..(k-1) : HasKey(parsed, required_sections[j])

(* Variant: the decoder's error is not translated *)
_load_config_untranslated(doc) ==
    IF ~doc.exists
    THEN [ok |-> FALSE, config |-> NoneVal, log |-> <<>>,
          error |-> Err("FileNotFoundError", "Configuration file not found", 0)]
    ELSE IF ~doc.parseable
    THEN [ok |-> FALSE, config |-> NoneVal, log |-> <<>>,
          error |-> Err("JSONDecodeError", "Expecting value", 0)]
    ELSE LET parsed == ParseConfig(doc)
             m == FirstMissing(parsed)
         IN  IF m # 0
             THEN [ok |-> FALSE, config |-> NoneVal, log |-> <<>>,
                   error |-> Err("ValueError",
                                 "Missing required configuration section", m)]
             ELSE [ok |-> TRUE, config |-> parsed,
                   log |-> <<Entry("Configuration loaded successfully",
                                   parsed.v["metadata"].v)>>,
                   error |-> NoError]

(* ScientificConfigManager._load_config: outcome for a file on disk *)
_load_config(doc) ==
    IF ~doc.exists
    THEN [ok |-> FALSE, config |-> NoneVal, log |-> <<>>,
          error |-> Err("FileNotFoundError", "Configuration file not found", 0)]
    ELSE IF ~doc.parseable
    THEN [ok |-> FALSE, config |-> NoneVal, log |-> <<>>,
          error |-> Err("ValueError", "Invalid JSON in configuration file", 0)]
    ELSE LET parsed == ParseConfig(doc)
             m == FirstMissing(parsed)
         IN  IF m # 0
             THEN [ok |-> FALSE, config |-> NoneVal, log |-> <<>>,
                   error |-> Err("ValueError",
                                 "Missing required configuration section", m)]
             ELSE [ok |-> TRUE, config |-> parsed,
                   log |-> <<Entry("Configuration loaded successfully",
                                   parsed.v["metadata"].v)>>,
                   error |-> NoError]

(* Variant: equal filter edges are accepted (hp_freq > lp_freq) *)
validate_scientific_parameters_lenient(cfg) ==
    LET sci_params == cfg.v["scientific_parameters"].v
        lambda2 == sci_params["inverse_solution"].v["lambda2"].v
        srate == sci_params["preprocessing"].v["target_srate"].v
        hp_freq == sci_params["preprocessing"].v["highpass_freq"].v
        lp_freq == sci_params["preprocessing"].v["lowpass_freq"].v
    IN  IF ~(LAMBDA2_MIN <= lambda2 /\ lambda2 <= LAMBDA2_MAX)
        THEN [ok |-> FALSE, log |-> <<>>,
              error |-> Err("ValueError", "lambda2 outside scientific range [0.001, 1.0]", lambda2)]
        ELSE IF ~(SRATE_MIN <= srate /\ srate <= SRATE_MAX)
        THEN [ok |-> FALSE, log |-> <<>>,
              error |-> Err("ValueError", "Sampling rate outside typical EEG range [50, 2000] Hz", srate)]
        ELSE IF hp_freq > lp_freq
        THEN [ok |-> FALSE, log |-> <<>>,
              error |-> Err("ValueError", "Highpass freq must be less than lowpass freq", hp_freq)]
        ELSE [ok |-> TRUE,
              log |-> <<Entry("Scientific parameters validated successfully", NoDetails)>>,
              error |-> NoError]

(* ScientificConfigManager.validate_scientific_parameters on a loaded config *)
validate_scientific_parameters(cfg) ==
    LET sci_params == cfg.v["scientific_parameters"].v
        lambda2 == sci_params["inverse_solution"].v["lambda2"].v
        srate == sci_params["preprocessing"].v["target_srate"].v
        hp_freq == sci_params["preprocessing"].v["highpass_freq"].v
        lp_freq == sci_params["preprocessing"].v["lowpass_freq"].v
    IN  IF ~(LAMBDA2_MIN <= lambda2 /\ lambda2 <= LAMBDA2_MAX)
        THEN [ok |-> FALSE, log |-> <<>>,
              error |-> Err("ValueError", "lambda2 outside scientific range [0.001, 1.0]", lambda2)]
        ELSE IF ~(SRATE_MIN <= srate /\ srate <= SRATE_MAX)
        THEN [ok |-> FALSE, log |-> <<>>,
              error |-> Err("ValueError", "Sampling rate outside typical EEG range [50, 2000] Hz", srate)]
        ELSE IF hp_freq >= lp_freq
        THEN [ok |-> FALSE, log |-> <<>>,
              error |-> Err("ValueError", "Highpass freq must be less than lowpass freq", hp_freq)]
        ELSE [ok |-> TRUE,
              log |-> <<Entry("Scientific parameters validated successfully", NoDetails)>>,
              error |-> NoError]

(* Variant: the default is returned without a log entry *)
get_parameter_silent(cfg, section, parameter, default) ==
    IF HasKey(cfg, section) /\ HasKey(cfg.v[section], parameter)
    THEN LET value == cfg.v[section].v[parameter]
         IN  [ok |-> TRUE, log |-> <<>>, error |-> NoError,
              value |-> IF IsDict(value) /\ "default" \in DOMAIN value.v
                        THEN value.v["default"] ELSE value]
    ELSE IF default.t # "none"
    THEN [ok |-> TRUE, value |-> default, error |-> NoError, log |-> <<>>]
    ELSE [ok |-> FALSE, value |-> NoneVal, log |-> <<>>,
          error |-> Err("ValueError", "Required parameter not found", 0)]

(* ScientificConfigManager.get_parameter: value, log entries, error *)
get_parameter(cfg, section, parameter, default) ==
    IF HasKey(cfg, section) /\ HasKey(cfg.v[section], parameter)
    THEN LET value == cfg.v[section].v[parameter]
         IN  [ok |-> TRUE, log |-> <<>>, error |-> NoError,
              value |-> IF IsDict(value) /\ "default" \in DOMAIN value.v
                        THEN value.v["default"] ELSE value]
    ELSE IF default.t # "none"
    THEN [ok |-> TRUE, value |-> default, error |-> NoError,
          log |-> <<Entry("Using default for section.parameter",
                          [section |-> section, parameter |-> parameter,
                           default |-> default])>>]
    ELSE [ok |-> FALSE, value |-> NoneVal, log |-> <<>>,
          error |-> Err("ValueError", "Required parameter not found", 0)]

-----------------------------------------------------------------------------
(* Channel names.  The montage holds the first 36 names of MNE's          *)
(* standard_1020; upper is str.upper on the names the model uses.         *)
standard_1020 ==
    <<"Fp1", "Fpz", "Fp2", "AF7", "AF3", "AFz", "AF4", "AF8", "F7", "F5", "F3", "F1",
      "Fz", "F2", "F4", "F6", "F8", "FT7", "FC5", "FC3", "FC1", "FCz", "FC2", "FC4",
      "FC6", "FT8", "T7", "C5", "C3", "C1", "Cz", "C2", "C4", "C6", "T8", "Pz">>

upper(n) ==
    CASE n = "Fp1" -> "FP1"
      [] n = "Fpz" -> "FPZ"
      [] n = "Fp2" -> "FP2"
      [] n = "AFz" -> "AFZ"
      [] n = "Fz" -> "FZ"
      [] n = "FCz" -> "FCZ"
      [] n = "Cz" -> "CZ"
      [] n = "Pz" -> "PZ"
      [] n = "fp1" -> "FP1"
      [] n = "fz" -> "FZ"
      [] n = "cz" -> "CZ"
      [] n = "heog" -> "HEOG"
      [] OTHER -> n

Range(seq) == {seq[k] : k \in 1..Len(seq)}
IsUnique(seq) == Cardinality(Range(seq)) = Len(seq)

(* list.index: position of the first element equal to x *)
IndexOf(seq, x) ==
    CHOOSE k \in 1..Len(seq) : seq[k] = x /\ \A j \in 1..(k-1) : seq[j] # x

-----------------------------------------------------------------------------
(* Desikan-Killiany region names.  A name '<region>-<hemi>' of the source *)
(* is the pair of its two parts, so that endswith('-lh') is hemi = "lh".   *)
R(region, hemi) == [region |-> region, hemi |-> hemi]

DESIKAN_KILLIANY_REGIONS ==
    <<
      R("bankssts", "lh"), R("caudalanteriorcingulate", "lh"),
      R("caudalmiddlefrontal", "lh"), R("cuneus", "lh"), R("entorhinal", "lh"),
      R("fusiform", "lh"), R("inferiorparietal", "lh"), R("inferiortemporal", "lh"),
      R("isthmuscingulate", "lh"), R("lateraloccipital", "lh"),
      R("lateralorbitofrontal", "lh"), R("lingual", "lh"),
      R("medialorbitofrontal", "lh"), R("middletemporal", "lh"),
      R("parahippocampal", "lh"), R("paracentral", "lh"), R("parsopercularis", "lh"),
      R("parsorbitalis", "lh"), R("parstriangularis", "lh"), R("pericalcarine", "lh"),
      R("postcentral", "lh"), R("posteriorcingulate", "lh"), R("precentral", "lh"),
      R("precuneus", "lh"), R("rostralanteriorcingulate", "lh"),
      R("rostralmiddlefrontal", "lh"), R("superiorfrontal", "lh"),
      R("superiorparietal", "lh"), R("superiortemporal", "lh"),
      R("supramarginal", "lh"), R("frontalpole", "lh"), R("temporalpole", "lh"),
      R("transversetemporal", "lh"), R("insula", "lh"), R("bankssts", "rh"),
      R("caudalanteriorcingulate", "rh"), R("caudalmiddlefrontal", "rh"),
      R("cuneus", "rh"), R("entorhinal", "rh"), R("fusiform", "rh"),
      R("inferiorparietal", "rh"), R("inferiortemporal", "rh"),
      R("isthmuscingulate", "rh"), R("lateraloccipital", "rh"),
      R("lateralorbitofrontal", "rh"), R("lingual", "rh"),
      R("medialorbitofrontal", "rh"), R("middletemporal", "rh"),
      R("parahippocampal", "rh"), R("paracentral", "rh"), R("parsopercularis", "rh"),
      R("parsorbitalis", "rh"), R("parstriangularis", "rh"), R("pericalcarine", "rh"),
      R("postcentral", "rh"), R("posteriorcingulate", "rh"), R("precentral", "rh"),
      R("precuneus", "rh"), R("rostralanteriorcingulate", "rh"),
      R("rostralmiddlefrontal", "rh"), R("superiorfrontal", "rh"),
      R("superiorparietal", "rh"), R("superiortemporal", "rh"),
      R("supramarginal", "rh"), R("frontalpole", "rh"), R("temporalpole", "rh"),
      R("transversetemporal", "rh"), R("insula", "rh")
    >>

-----------------------------------------------------------------------------
(* Bounds of the model *)
MaxFiles == 2       \* .set files in a batch
MaxTimes == 2       \* time points of an epoch (stand-in for the real hundreds)
MaxEpochs == 2      \* epochs of a recording
MaxCalls == 2       \* repeated bare calls of _validate_raw_data

(* Thresholds of the code, in the model's units *)
MIN_CHANNELS == 32
MIN_DURATION == 60
MIN_SRATE == 25000
MAX_RANGE == 1000000
MIN_RANGE == 10
MIN_LOCATED == 8
SHORT_EPOCH == 2000
SRATE_TOLERANCE == 10
SEED == 42
N_ICO5_SOURCES == 20484

-----------------------------------------------------------------------------
(* Input files.  A file is its recording (what the readers return) and    *)
(* the set of library calls that raise while it is processed ("faults").  *)
(* n_times / n_epochs are the dimensions of the epochs handed to the      *)
(* solver; signal identifies the sample values.                           *)
Chs(n) == SubSeq(standard_1020, 1, n)

(* Channel lists with names the montage spells differently: lower-case    *)
(* "fp1" and "fz", and a list where "fp1" sits next to "Fp1".             *)
LowerCased == [k \in 1..32 |-> IF k = 1 THEN "fp1" ELSE IF k = 13 THEN "fz" ELSE standard_1020[k]]
Clashing == [k \in 1..32 |-> IF k = 2 THEN "fp1" ELSE standard_1020[k]]

(* Nine channels of which two carry names the montage does not know *)
Sparse == Chs(7) \o <<"E8", "E9">>

BaseFile ==
    [exists |-> TRUE, suffix_ok |-> TRUE, reader |-> "epochs",
     has_nan |-> FALSE, has_inf |-> FALSE,
     ch_names |-> Chs(32), sfreq |-> 25000, duration_s |-> 120,
     data_range |-> 100000, epoch_ms |-> 1500, has_baseline |-> FALSE,
     n_times |-> 1, n_epochs |-> 1, n_sources |-> N_ICO5_SOURCES, signal |-> 1,
     faults |-> {}, mem_exceeded |-> FALSE]

RawFile == [BaseFile EXCEPT !.reader = "raw"]

(* Library calls that may raise *)
PreprocFaults == {"hp", "lp", "resample", "reference", "epoching"}
ForwardFaults == {"fetch", "src", "bem", "make_montage", "rename", "set_montage", "leadfield"}
InverseFaults == {"baseline", "covariance", "operator", "apply"}

(* The files of the batch runs: the base recording, epoched and          *)
(* continuous, and the variations that decide a file's fate.              *)
BatchFiles ==
    {BaseFile, RawFile, [BaseFile EXCEPT !.exists = FALSE]}
    \cup {[f EXCEPT !.has_nan = TRUE] : f \in {BaseFile, RawFile}}
    \cup {[RawFile EXCEPT !.has_inf = TRUE]}
    \cup {[BaseFile EXCEPT !.has_inf = TRUE, !.faults = {"covariance"}]}
    \cup {[BaseFile EXCEPT !.faults = {"fetch"}]}
    \cup {[BaseFile EXCEPT !.n_times = MaxTimes, !.n_epochs = MaxEpochs, !.faults = {x}] :
             x \in {"fetch", "covariance"}}
    \cup {[RawFile EXCEPT !.faults = {"epoching"}]}
    \cup {[BaseFile EXCEPT !.ch_names = Chs(5)]}

(* The files of the one-file runs: the base recording and its variations  *)
(* in one respect each, plus the pairs above.                             *)
StageFiles ==
    BatchFiles
    \cup {[BaseFile EXCEPT !.reader = "error"], [BaseFile EXCEPT !.has_inf = TRUE]}
    \cup {[RawFile EXCEPT !.ch_names = Chs(5)], [BaseFile EXCEPT !.ch_names = Chs(7)],
          [BaseFile EXCEPT !.ch_names = Chs(8)]}
    \cup {[RawFile EXCEPT !.sfreq = 50000, !.duration_s = 30, !.data_range = 2000000]}
    \cup {[BaseFile EXCEPT !.epoch_ms = 3000, !.sfreq = 50000]}
    \cup {[BaseFile EXCEPT !.has_baseline = TRUE]}
    \cup {[BaseFile EXCEPT !.n_times = t, !.n_epochs = e] :
             t \in {1, MaxTimes}, e \in {1, MaxEpochs}}
    \cup {[f EXCEPT !.faults = {x}] :
             f \in {BaseFile, RawFile}, x \in ForwardFaults \cup InverseFaults}
    \cup {[BaseFile EXCEPT !.epoch_ms = 3000, !.faults = {x}] :
             x \in {"hp", "lp", "reference"}}
    \cup {[BaseFile EXCEPT !.sfreq = 50000, !.faults = {"resample"}]}
    \cup {[RawFile EXCEPT !.faults = {x}] : x \in {"hp", "lp"}}
    \cup {[BaseFile EXCEPT !.mem_exceeded = TRUE]}
    \cup {[BaseFile EXCEPT !.ch_names = LowerCased],
          [BaseFile EXCEPT !.ch_names = LowerCased, !.faults = {"rename"}],
          [BaseFile EXCEPT !.ch_names = Clashing]}
    \cup {[BaseFile EXCEPT !.ch_names = Chs(n), !.faults = {"leadfield"}] : n \in {7, 8}}
    \cup {[BaseFile EXCEPT !.ch_names = Sparse],
          [BaseFile EXCEPT !.ch_names = <<"fp1">> \o SubSeq(Sparse, 2, 9) \o <<"AF8">>]}
    \cup {[f EXCEPT !.sfreq = x] : f \in {BaseFile, RawFile}, x \in {25005, 25010, 50010}}
    \cup {[f EXCEPT !.ch_names = c] :
             f \in {BaseFile, RawFile},
             c \in {<<"Fp1", "HEOG", "VEOG">>, <<"Fp1", "Fz", "HEOG">>, <<"Fp1", "heog">>}}
    \cup {[BaseFile EXCEPT !.epoch_ms = 2000],
          [BaseFile EXCEPT !.epoch_ms = 3000, !.ch_names = Chs(1)]}

(* The recordings of the bare validator calls: every combination *)
CheckedRecordings ==
    {[RawFile EXCEPT !.has_nan = n, !.has_inf = f, !.ch_names = Chs(c), !.duration_s = d,
                     !.sfreq = s, !.data_range = r] :
        n \in BOOLEAN, f \in BOOLEAN, c \in {31, 32}, d \in {59, 60},
        s \in {24999, 25000}, r \in {9, 10, 1000000, 1000001}}

-----------------------------------------------------------------------------
(* The Raw / Epochs object built by a reader from a file *)
MakeData(file, kind) ==
    [kind |-> kind,
     ch_names |-> file.ch_names,
     ch_types |-> [k \in 1..Len(file.ch_names) |-> "eeg"],
     sfreq |-> file.sfreq,
     duration_s |-> file.duration_s,
     epoch_ms |-> file.epoch_ms,
     n_times |-> file.n_times,
     n_epochs |-> file.n_epochs,
     has_nan |-> file.has_nan,
     has_inf |-> file.has_inf,
     data_range |-> file.data_range,
     baseline |-> file.has_baseline,
     filters |-> <<>>,
     reference |-> "none",
     signal |-> file.signal]
NoData == [kind |-> "none"]

(* Variant: only np.isnan is consulted *)
_validate_raw_data_nan_only(raw) ==
    LET n_channels == Len(raw.ch_names)
        duration == raw.duration_s
        srate == raw.sfreq
        validation_metrics_ == [n_channels |-> n_channels, n_times |-> raw.n_times,
                                duration_s |-> duration, sampling_rate |-> srate]
        w1 == IF n_channels < MIN_CHANNELS THEN <<"Low channel count">> ELSE <<>>
        w2 == IF duration < MIN_DURATION THEN <<"Short recording">> ELSE <<>>
        w3 == IF srate < MIN_SRATE THEN <<"Low sampling rate">> ELSE <<>>
        w4 == IF raw.data_range > MAX_RANGE THEN <<"Unusually large voltage range">>
              ELSE IF raw.data_range < MIN_RANGE THEN <<"Unusually small voltage range">>
              ELSE <<>>
    IN  IF raw.has_nan
        THEN [ok |-> FALSE, warnings |-> w1 \o w2 \o w3, metrics |-> <<>>,
              raw_after |-> raw,
              error |-> Err("ValueError", "Data contains NaN or infinite values", 0)]
        ELSE [ok |-> TRUE, warnings |-> w1 \o w2 \o w3 \o w4,
              metrics |-> <<validation_metrics_>>, raw_after |-> raw,
              error |-> NoError]

(* DataLoader._validate_raw_data: the warnings raised, then the outcome;  *)
(* raw_after is the recording as the call leaves it (get_data copies).    *)
_validate_raw_data(raw) ==
    LET n_channels == Len(raw.ch_names)
        duration == raw.duration_s
        srate == raw.sfreq
        validation_metrics_ == [n_channels |-> n_channels, n_times |-> raw.n_times,
                                duration_s |-> duration, sampling_rate |-> srate]
        w1 == IF n_channels < MIN_CHANNELS THEN <<"Low channel count">> ELSE <<>>
        w2 == IF duration < MIN_DURATION THEN <<"Short recording">> ELSE <<>>
        w3 == IF srate < MIN_SRATE THEN <<"Low sampling rate">> ELSE <<>>
        w4 == IF raw.data_range > MAX_RANGE THEN <<"Unusually large voltage range">>
              ELSE IF raw.data_range < MIN_RANGE THEN <<"Unusually small voltage range">>
              ELSE <<>>
    IN  IF raw.has_nan \/ raw.has_inf
        THEN [ok |-> FALSE, warnings |-> w1 \o w2 \o w3, metrics |-> <<>>,
              raw_after |-> raw,
              error |-> Err("ValueError", "Data contains NaN or infinite values", 0)]
        ELSE [ok |-> TRUE, warnings |-> w1 \o w2 \o w3 \o w4,
              metrics |-> <<validation_metrics_>>, raw_after |-> raw,
              error |-> NoError]

(* Variant: the existence and suffix checks sit inside the try block, so  *)
(* their errors are logged and wrapped like a reader's.                   *)
load_eeglab_file_wrapping(file, file_path) ==
    LET started == <<Entry("Loading EEGLAB file", [file |-> file_path])>>
        wrap(e) == Err("RuntimeError", "Failed to load: " \o e.msg, e.arg)
        failed(e) == <<Entry("File loading failed", [error |-> wrap(e)])>>
    IN  IF ~file.exists
        THEN LET e == Err("FileNotFoundError", "EEG file not found", 0)
             IN  [ok |-> FALSE, data |-> NoData, warnings |-> <<>>, metrics |-> <<>>,
                  error |-> wrap(e), log |-> started \o failed(e)]
        ELSE IF ~file.suffix_ok
        THEN LET e == Err("ValueError", "Expected .set file", 0)
             IN  [ok |-> FALSE, data |-> NoData, warnings |-> <<>>, metrics |-> <<>>,
                  error |-> wrap(e), log |-> started \o failed(e)]
        ELSE IF file.reader = "epochs"
        THEN LET epochs == MakeData(file, "epochs")
             IN  [ok |-> TRUE, data |-> epochs, warnings |-> <<>>, metrics |-> <<>>,
                  error |-> NoError,
                  log |-> started \o
                          <<Entry("File loaded as epochs",
                                  [channels |-> Len(epochs.ch_names),
                                   n_epochs |-> epochs.n_epochs,
                                   epoch_duration |-> epochs.epoch_ms,
                                   srate |-> epochs.sfreq])>>]
        ELSE IF file.reader = "raw"
        THEN LET raw == MakeData(file, "raw")
                 v == _validate_raw_data(raw)
             IN  IF ~v.ok
                 THEN [ok |-> FALSE, data |-> NoData, warnings |-> v.warnings,
                       metrics |-> <<>>, error |-> wrap(v.error),
                       log |-> started \o failed(v.error)]
                 ELSE [ok |-> TRUE, data |-> v.raw_after, warnings |-> v.warnings,
                       metrics |-> v.metrics, error |-> NoError,
                       log |-> started \o
                               <<Entry("File loaded as continuous",
                                       [channels |-> Len(raw.ch_names),
                                        duration |-> raw.duration_s,
                                        srate |-> raw.sfreq])>>]
        ELSE LET e == Err("OSError", "reader failed", 0)
             IN  [ok |-> FALSE, data |-> NoData, warnings |-> <<>>, metrics |-> <<>>,
                  error |-> wrap(e), log |-> started \o failed(e)]

(* DataLoader.load_eeglab_file *)
load_eeglab_file(file, file_path) ==
    LET started == <<Entry("Loading EEGLAB file", [file |-> file_path])>>
        wrap(e) == Err("RuntimeError", "Failed to load: " \o e.msg, e.arg)
        failed(e) == <<Entry("File loading failed", [error |-> wrap(e)])>>
    IN  IF ~file.exists
        THEN [ok |-> FALSE, data |-> NoData, log |-> <<>>, warnings |-> <<>>,
              metrics |-> <<>>, error |-> Err("FileNotFoundError", "EEG file not found", 0)]
        ELSE IF ~file.suffix_ok
        THEN [ok |-> FALSE, data |-> NoData, log |-> <<>>, warnings |-> <<>>,
              metrics |-> <<>>, error |-> Err("ValueError", "Expected .set file", 0)]
        ELSE IF file.reader = "epochs"
        THEN LET epochs == MakeData(file, "epochs")
             IN  [ok |-> TRUE, data |-> epochs, warnings |-> <<>>, metrics |-> <<>>,
                  error |-> NoError,
                  log |-> started \o
                          <<Entry("File loaded as epochs",
                                  [channels |-> Len(epochs.ch_names),
                                   n_epochs |-> epochs.n_epochs,
                                   epoch_duration |-> epochs.epoch_ms,
                                   srate |-> epochs.sfreq])>>]
        ELSE IF file.reader = "raw"
        THEN LET raw == MakeData(file, "raw")
                 v == _validate_raw_data(raw)
             IN  IF ~v.ok
                 THEN [ok |-> FALSE, data |-> NoData, warnings |-> v.warnings,
                       metrics |-> <<>>, error |-> wrap(v.error),
                       log |-> started \o failed(v.error)]
                 ELSE [ok |-> TRUE, data |-> v.raw_after, warnings |-> v.warnings,
                       metrics |-> v.metrics, error |-> NoError,
                       log |-> started \o
                               <<Entry("File loaded as continuous",
                                       [channels |-> Len(raw.ch_names),
                                        duration |-> raw.duration_s,
                                        srate |-> raw.sfreq])>>]
        ELSE LET e == Err("OSError", "reader failed", 0)
             IN  [ok |-> FALSE, data |-> NoData, warnings |-> <<>>, metrics |-> <<>>,
                  error |-> wrap(e), log |-> started \o failed(e)]

-----------------------------------------------------------------------------
(* Scientific parameters read through get_parameter *)
PreprocParam(cfg, name) ==
    get_parameter(cfg, "scientific_parameters", "preprocessing", NoneVal).value.v[name].v

Abs(x) == IF x < 0 THEN -x ELSE x

(* set_channel_types({ch: 'eog'}) for the channels named HEOG / VEOG *)
eog_channels == <<"HEOG", "VEOG">>
SetEogTypes(d) ==
    [d EXCEPT !.ch_types = [k \in 1..Len(d.ch_names) |->
                               IF d.ch_names[k] \in Range(eog_channels)
                               THEN "eog" ELSE d.ch_types[k]]]

(* The EEG channels, as the list comprehension of the code selects them *)
EegChannels(d) ==
    {k \in 1..Len(d.ch_names) : d.ch_types[IndexOf(d.ch_names, d.ch_names[k])] = "eeg"}

(* Variant: both filters are called whatever the cutoffs *)
ApplyFiltersUnconditional(d, hp_freq, lp_freq, faults) ==
    [raised |-> FALSE, data |-> [d EXCEPT !.filters = d.filters \o <<"hp", "lp">>],
     error |-> NoError]

(* abs(data.info['sfreq'] - target_srate) > 0.1 on IEEE-754 doubles.      *)
(* Rates are in hundredths of a Hz; the double nearest n/100 differs from *)
(* n/100 by RoundingError(n) hundredths of its unit in the last place,    *)
(* which is 2^(Exponent(n) - 52).  The subtraction of two rates 0.1 Hz    *)
(* apart is exact, and the literal 0.1 is 0.1 + 0.4 * 2^-56; on both      *)
(* sides scaled by 100 * 2^56 the comparison is one of integers.          *)
RECURSIVE Pow2(_)
Pow2(k) == IF k = 0 THEN 1 ELSE 2 * Pow2(k - 1)

RECURSIVE Pow2Mod100(_)
Pow2Mod100(k) == IF k = 0 THEN 1 ELSE (2 * Pow2Mod100(k - 1)) % 100

(* e with 2^e <= n/100 < 2^(e+1), for rates of 1 Hz and above *)
Exponent(n) == CHOOSE e \in 0..20 : 100 * Pow2(e) <= n /\ n < 100 * Pow2(e + 1)

RoundingError(n) ==
    LET q == ((n % 100) * Pow2Mod100(52 - Exponent(n))) % 100
    IN  IF q < 50 THEN 0 - q ELSE 100 - q

ExceedsTolerance(sfreq, target_srate) ==
    LET hi == IF sfreq > target_srate THEN sfreq ELSE target_srate
        lo == IF sfreq > target_srate THEN target_srate ELSE sfreq
    IN  IF hi - lo # SRATE_TOLERANCE
        THEN hi - lo > SRATE_TOLERANCE
        ELSE RoundingError(hi) * Pow2(Exponent(hi) + 4)
               - RoundingError(lo) * Pow2(Exponent(lo) + 4) > 40

(* The two filter calls, in the code's order.  A call that raises leaves  *)
(* the filters applied before it in place.                                *)
ApplyFilters(d, hp_freq, lp_freq, faults) ==
    LET wantHp == hp_freq > 0
        wantLp == 2 * lp_freq < d.sfreq
        hpFails == wantHp /\ "hp" \in faults
        afterHp == IF wantHp /\ ~hpFails THEN Append(d.filters, "hp") ELSE d.filters
        lpFails == ~hpFails /\ wantLp /\ "lp" \in faults
        afterLp == IF ~hpFails /\ wantLp /\ ~lpFails THEN Append(afterHp, "lp") ELSE afterHp
    IN  [raised |-> hpFails \/ lpFails,
         data |-> [d EXCEPT !.filters = afterLp],
         error |-> IF hpFails THEN Err("ValueError", "highpass filter failed", 0)
                   ELSE IF lpFails THEN Err("ValueError", "lowpass filter failed", 0)
                   ELSE NoError]

(* StandaloneEEGProcessor._preprocess_data *)
_preprocess_data(cfg, d, faults) ==
    LET target_srate == PreprocParam(cfg, "target_srate")
        hp_freq == PreprocParam(cfg, "highpass_freq")
        lp_freq == PreprocParam(cfg, "lowpass_freq")
        started == <<Entry("Starting preprocessing",
                           [target_srate |-> target_srate, hp_freq |-> hp_freq,
                            lp_freq |-> lp_freq])>>
        needResample == ExceedsTolerance(d.sfreq, target_srate)
        resampleFails == needResample /\ "resample" \in faults
        Resampled(x) == IF needResample THEN [x EXCEPT !.sfreq = target_srate] ELSE x
        raise(e, lg, ws) == [ok |-> FALSE, data |-> NoData, log |-> lg, warnings |-> ws,
                             error |-> e]
    IN  IF d.kind = "epochs"
        THEN LET skip == d.epoch_ms < SHORT_EPOCH
                 f == ApplyFilters(d, hp_freq, lp_freq, faults)
                 filtLog == IF skip
                            THEN <<Entry("Skipping filtering for short epochs",
                                         [epoch_duration |-> d.epoch_ms])>>
                            ELSE IF f.raised
                            THEN <<Entry("Filtering failed for epochs", [error |-> f.error])>>
                            ELSE <<>>
                 filtWarn == IF ~skip /\ f.raised THEN <<"Epoch filtering failed">> ELSE <<>>
                 epochs_filtered == IF skip THEN d ELSE f.data
                 typed == SetEogTypes(Resampled(epochs_filtered))
                 eeg_channels == EegChannels(typed)
                 needRef == Cardinality(eeg_channels) > 1
             IN  IF resampleFails
                 THEN raise(Err("ValueError", "resample failed", 0),
                            started \o filtLog, filtWarn)
                 ELSE IF needRef /\ "reference" \in faults
                 THEN raise(Err("ValueError", "set_eeg_reference failed", 0),
                            started \o filtLog, filtWarn)
                 ELSE [ok |-> TRUE, error |-> NoError, warnings |-> filtWarn,
                       data |-> IF needRef THEN [typed EXCEPT !.reference = "average"]
                                ELSE typed,
                       log |-> started \o filtLog
                               \o (IF needRef
                                   THEN <<Entry("Applied average EEG reference",
                                                [n_eeg_channels |-> Cardinality(eeg_channels)])>>
                                   ELSE <<>>)
                               \o <<Entry("Epochs preprocessing completed", NoDetails)>>]
        ELSE LET f == ApplyFilters(d, hp_freq, lp_freq, faults)
             IN  IF f.raised
                 THEN raise(f.error, started, <<>>)
                 ELSE IF resampleFails
                 THEN raise(Err("ValueError", "resample failed", 0), started, <<>>)
                 ELSE [ok |-> TRUE, error |-> NoError, warnings |-> <<>>,
                       data |-> Resampled(f.data),
                       log |-> started \o <<Entry("Raw preprocessing completed", NoDetails)>>]

(* StandaloneEEGProcessor._create_epochs *)
EPOCH_LENGTH_MS == 2000
_create_epochs(raw, faults) ==
    LET started == <<Entry("Creating epochs",
                           [epoch_length_ms |-> EPOCH_LENGTH_MS, overlap_pct |-> 50])>>
    IN  IF "epoching" \in faults
        THEN [ok |-> FALSE, data |-> NoData, log |-> started,
              error |-> Err("ValueError", "epoching failed", 0)]
        ELSE LET epochs == [raw EXCEPT !.kind = "epochs", !.epoch_ms = EPOCH_LENGTH_MS,
                                       !.baseline = FALSE]
             IN  [ok |-> TRUE, data |-> epochs, error |-> NoError,
                  log |-> started \o <<Entry("Epochs created",
                                             [n_epochs |-> epochs.n_epochs])>>]

-----------------------------------------------------------------------------
(* Forward model *)
NoForward == [built |-> FALSE, nsource |-> 0, nchan |-> 0, ch_names |-> <<>>]

montage_ch_names_upper == [k \in 1..Len(standard_1020) |-> upper(standard_1020[k])]

(* Variant: a channel the montage knows is renamed to its upper-cased name *)
CorrectNameUpper(ch_name) ==
    IF upper(ch_name) \in Range(eog_channels) THEN ch_name
    ELSE IF upper(ch_name) \in Range(montage_ch_names_upper)
    THEN upper(ch_name)
    ELSE ch_name

(* The canonical montage spelling of a channel name, or the name itself   *)
(* when the montage has no channel of that upper-cased name.              *)
CorrectName(ch_name) ==
    IF upper(ch_name) \in Range(eog_channels) THEN ch_name
    ELSE IF upper(ch_name) \in Range(montage_ch_names_upper)
    THEN standard_1020[IndexOf(montage_ch_names_upper, upper(ch_name))]
    ELSE ch_name

(* channel_mapping of the code: the channels whose name changes *)
ChannelMapping(ch_names) ==
    [n \in {c \in Range(ch_names) : CorrectName(c) # c} |-> CorrectName(n)]

(* Variant: every EEG channel is counted, whether the montage placed it or not *)
LocatedChannelsAny(ch_names, ch_types) ==
    {k \in 1..Len(ch_names) : ch_types[k] = "eeg"}

(* Channels that carry a montage position after set_montage(on_missing='ignore') *)
LocatedChannels(ch_names, ch_types) ==
    {k \in 1..Len(ch_names) : ch_types[k] = "eeg" /\ ch_names[k] \in Range(standard_1020)}

(* Variant: the except clause warns and returns None without logging *)
_build_forward_model_unlogged(cfg, info, file) ==
    LET started == <<Entry("Building forward model",
                           [subject |-> "fsaverage", spacing |-> "ico4"])>>
        fail(e, lg) ==
            [forward |-> NoForward, error |-> e,
             log |-> started \o lg,
             warnings |-> <<"Forward model construction failed">>]
        p == get_parameter(cfg, "scientific_parameters", "montage", NoneVal)
        info_copy == SetEogTypes(info)
        channel_mapping == ChannelMapping(info_copy.ch_names)
        renamed == [k \in 1..Len(info_copy.ch_names) |-> CorrectName(info_copy.ch_names[k])]
        renameLog == IF DOMAIN channel_mapping # {}
                     THEN <<Entry("Renamed channels for montage compatibility",
                                  [mappings |-> channel_mapping])>>
                     ELSE <<>>
        n_channels_with_locs == Cardinality(LocatedChannels(renamed, info_copy.ch_types))
        fwd == [built |-> TRUE, nsource |-> file.n_sources,
                nchan |-> Cardinality(EegChannels(info_copy)), ch_names |-> renamed]
    IN  IF "fetch" \in file.faults
        THEN fail(Err("OSError", "fetch_fsaverage failed", 0), <<>>)
        ELSE IF "src" \in file.faults
        THEN fail(Err("OSError", "read_source_spaces failed", 0), <<>>)
        ELSE IF "bem" \in file.faults
        THEN fail(Err("OSError", "read_bem_solution failed", 0), <<>>)
        ELSE IF ~p.ok
        THEN fail(p.error, <<>>)
        ELSE IF IsDict(p.value)
        THEN fail(Err("KeyError", "default", 0), <<>>)
        ELSE IF p.value.v # "standard_1020" \/ "make_montage" \in file.faults
        THEN fail(Err("ValueError", "make_standard_montage failed", 0), <<>>)
        ELSE IF DOMAIN channel_mapping # {} /\ (~IsUnique(renamed) \/ "rename" \in file.faults)
        THEN fail(Err("ValueError", "rename_channels failed", 0), <<>>)
        ELSE IF "set_montage" \in file.faults
        THEN fail(Err("ValueError", "set_montage failed", 0), renameLog)
        ELSE IF n_channels_with_locs < MIN_LOCATED
        THEN fail(Err("ValueError", "Only n channels have electrode locations. Need at least 8.",
                      n_channels_with_locs), renameLog)
        ELSE IF "leadfield" \in file.faults
        THEN fail(Err("RuntimeError", "make_forward_solution failed", 0), renameLog)
        ELSE [forward |-> fwd, error |-> NoError, warnings |-> <<>>,
              log |-> started \o renameLog
                      \o <<Entry("Forward model built successfully",
                                 [n_sources |-> fwd.nsource, n_channels |-> fwd.nchan])>>]

(* StandaloneEEGProcessor._build_forward_model: never raises *)
_build_forward_model(cfg, info, file) ==
    LET started == <<Entry("Building forward model",
                           [subject |-> "fsaverage", spacing |-> "ico4"])>>
        fail(e, lg) ==
            [forward |-> NoForward, error |-> e,
             log |-> started \o lg \o <<Entry("Forward model failed", [error |-> e])>>,
             warnings |-> <<"Forward model construction failed">>]
        p == get_parameter(cfg, "scientific_parameters", "montage", NoneVal)
        info_copy == SetEogTypes(info)
        channel_mapping == ChannelMapping(info_copy.ch_names)
        renamed == [k \in 1..Len(info_copy.ch_names) |-> CorrectName(info_copy.ch_names[k])]
        renameLog == IF DOMAIN channel_mapping # {}
                     THEN <<Entry("Renamed channels for montage compatibility",
                                  [mappings |-> channel_mapping])>>
                     ELSE <<>>
        n_channels_with_locs == Cardinality(LocatedChannels(renamed, info_copy.ch_types))
        fwd == [built |-> TRUE, nsource |-> file.n_sources,
                nchan |-> Cardinality(EegChannels(info_copy)), ch_names |-> renamed]
    IN  IF "fetch" \in file.faults
        THEN fail(Err("OSError", "fetch_fsaverage failed", 0), <<>>)
        ELSE IF "src" \in file.faults
        THEN fail(Err("OSError", "read_source_spaces failed", 0), <<>>)
        ELSE IF "bem" \in file.faults
        THEN fail(Err("OSError", "read_bem_solution failed", 0), <<>>)
        ELSE IF ~p.ok
        THEN fail(p.error, <<>>)
        ELSE IF IsDict(p.value)
        THEN fail(Err("KeyError", "default", 0), <<>>)
        ELSE IF p.value.v # "standard_1020" \/ "make_montage" \in file.faults
        THEN fail(Err("ValueError", "make_standard_montage failed", 0), <<>>)
        ELSE IF DOMAIN channel_mapping # {} /\ (~IsUnique(renamed) \/ "rename" \in file.faults)
        THEN fail(Err("ValueError", "rename_channels failed", 0), <<>>)
        ELSE IF "set_montage" \in file.faults
        THEN fail(Err("ValueError", "set_montage failed", 0), renameLog)
        ELSE IF n_channels_with_locs < MIN_LOCATED
        THEN fail(Err("ValueError", "Only n channels have electrode locations. Need at least 8.",
                      n_channels_with_locs), renameLog)
        ELSE IF "leadfield" \in file.faults
        THEN fail(Err("RuntimeError", "make_forward_solution failed", 0), renameLog)
        ELSE [forward |-> fwd, error |-> NoError, warnings |-> <<>>,
              log |-> started \o renameLog
                      \o <<Entry("Forward model built successfully",
                                 [n_sources |-> fwd.nsource, n_channels |-> fwd.nchan])>>]

-----------------------------------------------------------------------------
(* numpy's global generator, as a counter-based generator: the state is   *)
(* a counter, np.random.seed sets it, the k-th sample drawn from a state  *)
(* is a mix of state + k, and drawing n samples advances the state by n.  *)
Sample(state, k) == ((state + k) * 75 + 74) % 65537

(* np.random.randn(n_sources, n_times, n_epochs) from the given state *)
randn(state, n_sources, n_times, n_epochs) ==
    LET n == n_sources * n_times * n_epochs
    IN  [tensor |-> [shape |-> <<n_sources, n_times, n_epochs>>,
                     values |-> [k \in 1..n |-> Sample(state, k)]],
         state |-> state + n]

(* Variant: the fallback draws without seeding the generator *)
SimulationUnseeded(state) == state

(* State of the generator on entry to the simulation fallback's draw: the *)
(* code calls np.random.seed(42) first.                                   *)
SimulationSeed(state) == SEED

(* The simulation fallback of _compute_inverse_solution *)
Simulate(epochs, state) ==
    randn(SimulationSeed(state), Len(DESIKAN_KILLIANY_REGIONS), epochs.n_times, epochs.n_epochs)

(* Variant: the regularization applied is the configured lambda2 *)
AppliedLambda2FromConfig ==
    config.v["scientific_parameters"].v["inverse_solution"].v["lambda2"].v

(* lambda2 = 1.0 / snr ** 2 with snr = 3.0, in 1/1000 *)
SNR == 3
AppliedLambda2 == 1000 \div (SNR * SNR)

NoTensor == [shape |-> <<0, 0, 0>>, values |-> <<>>]

(* Variant: the except clause returns the fallback without logging *)
_compute_inverse_solution_unlogged(cfg, epochs, fwd, faults, state) ==
    LET lambda2 == get_parameter(cfg, "scientific_parameters", "inverse_solution",
                                 NoneVal).value.v["lambda2"].v
        started == <<Entry("Computing inverse solution", [lambda2 |-> lambda2])>>
        sim == Simulate(epochs, state)
        needBaseline == ~epochs.baseline
        baseLog == IF needBaseline /\ "baseline" \notin faults
                   THEN <<Entry("Applied baseline correction", [tmin |-> 0, tmax |-> 100])>>
                   ELSE <<>>
        raised == IF needBaseline /\ "baseline" \in faults THEN "apply_baseline failed"
                  ELSE IF "covariance" \in faults THEN "compute_covariance failed"
                  ELSE IF "operator" \in faults THEN "make_inverse_operator failed"
                  ELSE IF "apply" \in faults THEN "apply_inverse_epochs failed"
                  ELSE IF epochs.n_epochs = 0 THEN "list index out of range"
                  ELSE ""
        source_data == [shape |-> <<fwd.nsource, epochs.n_times, epochs.n_epochs>>,
                        values |-> <<epochs.signal, AppliedLambda2>>]
    IN  IF ~fwd.built
        THEN [source_data |-> sim.tensor, state |-> sim.state, branch |-> "no_forward",
              log |-> started,
              warnings |-> <<"Using simulated inverse solution due to forward model failure">>]
        ELSE IF raised # ""
        THEN [source_data |-> sim.tensor, state |-> sim.state, branch |-> "exception",
              log |-> started \o baseLog,
              warnings |-> <<"Inverse solution failed">>]
        ELSE [source_data |-> source_data, state |-> state, branch |-> "genuine",
              log |-> started \o baseLog
                      \o <<Entry("Inverse solution computed successfully",
                                 [n_sources |-> fwd.nsource, n_times |-> epochs.n_times,
                                  n_epochs |-> epochs.n_epochs, method |-> "MNE"])>>,
              warnings |-> <<>>]

(* StandaloneEEGProcessor._compute_inverse_solution.  The values of a     *)
(* genuine solution are not computed: they are identified by the signal   *)
(* and the regularization applied.                                        *)
_compute_inverse_solution(cfg, epochs, fwd, faults, state) ==
    LET lambda2 == get_parameter(cfg, "scientific_parameters", "inverse_solution",
                                 NoneVal).value.v["lambda2"].v
        started == <<Entry("Computing inverse solution", [lambda2 |-> lambda2])>>
        sim == Simulate(epochs, state)
        needBaseline == ~epochs.baseline
        baseLog == IF needBaseline /\ "baseline" \notin faults
                   THEN <<Entry("Applied baseline correction", [tmin |-> 0, tmax |-> 100])>>
                   ELSE <<>>
        raised == IF needBaseline /\ "baseline" \in faults THEN "apply_baseline failed"
                  ELSE IF "covariance" \in faults THEN "compute_covariance failed"
                  ELSE IF "operator" \in faults THEN "make_inverse_operator failed"
                  ELSE IF "apply" \in faults THEN "apply_inverse_epochs failed"
                  ELSE IF epochs.n_epochs = 0 THEN "list index out of range"
                  ELSE ""
        source_data == [shape |-> <<fwd.nsource, epochs.n_times, epochs.n_epochs>>,
                        values |-> <<epochs.signal, AppliedLambda2>>]
    IN  IF ~fwd.built
        THEN [source_data |-> sim.tensor, state |-> sim.state, branch |-> "no_forward",
              log |-> started,
              warnings |-> <<"Using simulated inverse solution due to forward model failure">>]
        ELSE IF raised # ""
        THEN [source_data |-> sim.tensor, state |-> sim.state, branch |-> "exception",
              log |-> started \o baseLog
                      \o <<Entry("Inverse solution failed",
                                 [error |-> Err("Exception", raised, 0)])>>,
              warnings |-> <<"Inverse solution failed">>]
        ELSE [source_data |-> source_data, state |-> state, branch |-> "genuine",
              log |-> started \o baseLog
                      \o <<Entry("Inverse solution computed successfully",
                                 [n_sources |-> fwd.nsource, n_times |-> epochs.n_times,
                                  n_epochs |-> epochs.n_epochs, method |-> "MNE"])>>,
              warnings |-> <<>>]

(* StandaloneEEGProcessor._apply_atlas_parcellation *)
_apply_atlas_parcellation(src_estimates) ==
    [atlas |-> [data |-> src_estimates,
                region_names |-> DESIKAN_KILLIANY_REGIONS,
                units |-> "A.m",
                atlas_version |-> "desikan_killiany_68"],
     log |-> <<Entry("Applying atlas parcellation",
                     [atlas |-> "desikan_killiany",
                      n_regions |-> Len(DESIKAN_KILLIANY_REGIONS)])>>]

(* JSON text, as a tree of typed nodes *)
JNull == [j |-> "null", v |-> 0]
JNum(n) == [j |-> "number", v |-> n]
JStr(s) == [j |-> "string", v |-> s]
JArr(a) == [j |-> "array", v |-> a]
JObj(o) == [j |-> "object", v |-> o]

(* json.dump / json.load of a value read from the configuration file *)
RECURSIVE DumpValue(_)
DumpValue(x) ==
    CASE x.t = "num" -> JNum(x.v)
      [] x.t = "str" -> JStr(x.v)
      [] x.t = "dict" -> JObj([k \in DOMAIN x.v |-> DumpValue(x.v[k])])
      [] OTHER -> JNull
RECURSIVE LoadValue(_)
LoadValue(n) ==
    CASE n.j = "number" -> Num(n.v)
      [] n.j = "string" -> Str(n.v)
      [] n.j = "object" -> Dict([k \in DOMAIN n.v |-> LoadValue(n.v[k])])
      [] OTHER -> NoneVal

(* Variant: only the scientific parameters of the configuration are written *)
json_dump_partial(metadata) ==
    JObj([input_file |-> JStr(metadata.input_file),
          software_version |-> JStr(metadata.software_version),
          configuration |-> DumpValue(metadata.configuration.v["scientific_parameters"]),
          processing_log |-> JArr([k \in 1..Len(metadata.processing_log) |->
                                      JObj(metadata.processing_log[k])]),
          atlas_info |-> JObj([region_names |->
                                   JArr([k \in 1..Len(metadata.atlas_info.region_names) |->
                                            JStr(metadata.atlas_info.region_names[k])]),
                               units |-> JStr(metadata.atlas_info.units),
                               atlas_version |-> JStr(metadata.atlas_info.atlas_version)]),
          data_files |-> JObj([atlas_timecourses |->
                                   JStr(metadata.data_files.atlas_timecourses)])])

(* json.dump(metadata, f): the document written *)
json_dump(metadata) ==
    JObj([input_file |-> JStr(metadata.input_file),
          software_version |-> JStr(metadata.software_version),
          configuration |-> DumpValue(metadata.configuration),
          processing_log |-> JArr([k \in 1..Len(metadata.processing_log) |->
                                      JObj(metadata.processing_log[k])]),
          atlas_info |-> JObj([region_names |->
                                   JArr([k \in 1..Len(metadata.atlas_info.region_names) |->
                                            JStr(metadata.atlas_info.region_names[k])]),
                               units |-> JStr(metadata.atlas_info.units),
                               atlas_version |-> JStr(metadata.atlas_info.atlas_version)]),
          data_files |-> JObj([atlas_timecourses |->
                                   JStr(metadata.data_files.atlas_timecourses)])])

(* json.load(f) of a metadata document *)
json_load(doc) ==
    [input_file |-> doc.v.input_file.v,
     software_version |-> doc.v.software_version.v,
     configuration |-> LoadValue(doc.v.configuration),
     processing_log |-> [k \in 1..Len(doc.v.processing_log.v) |-> doc.v.processing_log.v[k].v],
     atlas_info |-> [region_names |->
                         [k \in 1..Len(doc.v.atlas_info.v.region_names.v) |->
                             doc.v.atlas_info.v.region_names.v[k].v],
                     units |-> doc.v.atlas_info.v.units.v,
                     atlas_version |-> doc.v.atlas_info.v.atlas_version.v],
     data_files |-> [atlas_timecourses |-> doc.v.data_files.v.atlas_timecourses.v]]

(* StandaloneEEGProcessor._save_results: the two artifacts written, named *)
(* after the stem of the input file, and the dict returned.  The metadata *)
(* dict returned holds the processing_log list itself (LiveLog), while    *)
(* the document written holds the entries at the time of the dump.        *)
LiveLog == <<Entry("self.config.processing_log", NoDetails)>>
_save_results(input_file, atlas, cfg, log_now) ==
    LET input_name == input_file.stem
        metadata == [input_file |-> input_file,
                     software_version |-> "1.0.0",
                     configuration |-> cfg,
                     processing_log |-> log_now,
                     atlas_info |-> [region_names |-> atlas.region_names,
                                     units |-> atlas.units,
                                     atlas_version |-> atlas.atlas_version],
                     data_files |-> [atlas_timecourses |-> input_name]]
    IN  [npy_name |-> input_name, npy |-> atlas.data,
         json_name |-> input_name, json |-> json_dump(metadata),
         log |-> <<Entry("Results saved", [output_dir |-> "output"])>>,
         returned |-> [atlas_timecourses_file |-> input_name,
                       metadata_file |-> input_name,
                       metadata |-> [metadata EXCEPT !.processing_log = LiveLog]]]

-----------------------------------------------------------------------------
(* Configuration files of the runs *)
AllSections == {"scientific_parameters", "processing_parameters", "metadata"}

BaseConfig ==
    [exists |-> TRUE, parseable |-> TRUE, sections |-> AllSections,
     lambda2 |-> 111, target_srate |-> 25000, highpass_freq |-> 100,
     lowpass_freq |-> 4000, has_memory_threshold |-> TRUE, memory_threshold_gb |-> 4,
     montage |-> "standard_1020"]

(* The files given to the process command: the base file and its          *)
(* variations in one respect each.                                        *)
RunConfigs ==
    {BaseConfig, [BaseConfig EXCEPT !.exists = FALSE], [BaseConfig EXCEPT !.parseable = FALSE]}
    \cup {[BaseConfig EXCEPT !.sections = AllSections \ {x}] : x \in AllSections}
    \cup {[BaseConfig EXCEPT !.lambda2 = x] : x \in {0, 1, 500, 1000, 1001}}
    \cup {[BaseConfig EXCEPT !.target_srate = x] : x \in {4999, 50000, 200001}}
    \cup {[BaseConfig EXCEPT !.highpass_freq = x] : x \in {0, 4000}}
    \cup {[BaseConfig EXCEPT !.lowpass_freq = 12500]}
    \cup {[BaseConfig EXCEPT !.has_memory_threshold = FALSE]}
    \cup {[BaseConfig EXCEPT !.montage = x] : x \in {"wrapped", "absent"}}

(* The files given to the validate command: every combination *)
ValidateConfigs ==
    {[BaseConfig EXCEPT !.exists = e, !.parseable = p, !.sections = sec] :
        e \in BOOLEAN, p \in BOOLEAN, sec \in SUBSET AllSections}
    \cup {[BaseConfig EXCEPT !.lambda2 = l, !.target_srate = r,
                             !.highpass_freq = h, !.lowpass_freq = 4000] :
        l \in {0, 1, 111, 1000, 1001}, r \in {4999, 5000, 25000, 200000, 200001},
        h \in {0, 100, 3999, 4000, 4001}}

(* The .set paths found in the input directory: the k-th path of the      *)
(* listing.  A recursive listing alternates between the directory and a   *)
(* subdirectory, so that two files share a stem.                          *)
PathOf(recursive, k) ==
    IF recursive
    THEN [dir |-> IF k % 2 = 1 THEN "data" ELSE "data/sub", stem |-> (k + 1) \div 2]
    ELSE [dir |-> "data", stem |-> k]
Listing(recursive, n) == [k \in 1..n |-> PathOf(recursive, k)]

Inputs ==
    {[kind |-> "file", recursive |-> FALSE, n_files |-> 1],
     [kind |-> "missing", recursive |-> FALSE, n_files |-> 0]}
    \cup {[kind |-> "dir", recursive |-> r, n_files |-> n] : r \in BOOLEAN, n \in 0..MaxFiles}

NoFile == [reader |-> "none", faults |-> {}]
EmptyMap == [x \in {} |-> 0]
Put(map, key, value) == [x \in DOMAIN map \cup {key} |-> IF x = key THEN value ELSE map[x]]

(* State shared by every entry point before it runs *)
Fresh ==
    /\ pc = "main"
    /\ exit_code = -1
    /\ config = NoneVal
    /\ processing_log = <<>>
    /\ last_error = NoError
    /\ validated = FALSE
    /\ memory_threshold = 0
    /\ set_files = <<>>
    /\ i = 0
    /\ fpc = "idle"
    /\ cur = NoFile
    /\ data = NoData
    /\ forward = NoForward
    /\ source_estimates = NoTensor
    /\ atlas_timecourses = NoData
    /\ file_results = NoData
    /\ results = EmptyMap
    /\ failed_files = <<>>
    /\ disk = [npy |-> EmptyMap, json |-> EmptyMap]
    /\ warned = <<>>
    /\ validation_metrics = EmptyMap
    /\ fileRec = <<>>
    /\ attempts = <<>>
    /\ outcomes = <<>>
    /\ cli_results = <<>>

(* main() with the process command, or process_command of cli.py, on a    *)
(* directory of up to MaxFiles files or on one file                       *)
Init ==
    /\ Fresh
    /\ rng \in {0, 7}
    /\ suite = BatchFiles
    /\ \/ /\ command = "process"
          /\ MNE_AVAILABLE = TRUE
          /\ cfgDisk \in {BaseConfig, [BaseConfig EXCEPT !.exists = FALSE]}
          /\ input_path \in Inputs
       \/ /\ command = "cli"
          /\ MNE_AVAILABLE = TRUE
          /\ cfgDisk = BaseConfig
          /\ input_path \in {x \in Inputs : x.kind = "dir"}

(* main() with the process command on one file, given as a file or as a   *)
(* directory that holds it, for every configuration file                  *)
InitFile ==
    /\ Fresh
    /\ rng \in {0, 7}
    /\ suite = StageFiles
    /\ command = "process"
    /\ MNE_AVAILABLE \in BOOLEAN
    /\ cfgDisk \in RunConfigs
    /\ input_path \in {x \in Inputs : x.n_files = 1}

(* main() with the validate command *)
InitValidate ==
    /\ Fresh
    /\ command = "validate"
    /\ rng = 0
    /\ suite = {}
    /\ MNE_AVAILABLE = TRUE
    /\ cfgDisk \in ValidateConfigs
    /\ input_path = [kind |-> "missing", recursive |-> FALSE, n_files |-> 0]

-----------------------------------------------------------------------------
(* main(): leaving with an exit code *)
Exit(code) ==
    /\ pc' = "done"
    /\ exit_code' = code

(* main(): the dependency check *)
MainStart ==
    /\ pc = "main"
    /\ command \in {"process", "validate"}
    /\ IF MNE_AVAILABLE
       THEN pc' = "load_config" /\ exit_code' = exit_code
       ELSE Exit(1)
    /\ UNCHANGED <<command, MNE_AVAILABLE, cfgVars, runVars, fileVars, outVars, histVars>>

(* ScientificConfigManager.__init__ *)
LoadConfig ==
    /\ pc = "load_config"
    /\ LET r == _load_config(cfgDisk)
       IN  /\ processing_log' = r.log
           /\ config' = r.config
           /\ last_error' = r.error
           /\ IF r.ok
              THEN pc' = "validate_config" /\ exit_code' = exit_code
              ELSE Exit(1)
    /\ UNCHANGED <<command, MNE_AVAILABLE, cfgDisk, validated, memory_threshold,
                   runVars, fileVars, outVars, histVars>>

(* Variant: the outcome of the validation is not acted upon by the         *)
(* process command                                                         *)
ValidateConfigIgnored ==
    /\ pc = "validate_config"
    /\ LET r == validate_scientific_parameters(config)
       IN  /\ processing_log' = processing_log \o r.log
           /\ validated' = r.ok
           /\ last_error' = r.error
           /\ IF command = "validate" THEN Exit(IF r.ok THEN 0 ELSE 1)
              ELSE pc' = "init_memory" /\ exit_code' = exit_code
    /\ UNCHANGED <<command, MNE_AVAILABLE, cfgDisk, config, memory_threshold,
                   runVars, fileVars, outVars, histVars>>

(* validate_scientific_parameters, called by StandaloneEEGProcessor.__init__ *)
(* and by the validate command                                               *)
ValidateConfig ==
    /\ pc = "validate_config"
    /\ LET r == validate_scientific_parameters(config)
       IN  /\ processing_log' = processing_log \o r.log
           /\ validated' = r.ok
           /\ last_error' = r.error
           /\ IF ~r.ok THEN Exit(1)
              ELSE IF command = "validate" THEN Exit(0)
              ELSE pc' = "init_memory" /\ exit_code' = exit_code
    /\ UNCHANGED <<command, MNE_AVAILABLE, cfgDisk, config, memory_threshold,
                   runVars, fileVars, outVars, histVars>>

(* StandaloneEEGProcessor.__init__: the memory threshold *)
InitMemory ==
    /\ pc = "init_memory"
    /\ LET r == get_parameter(config, "processing_parameters", "memory_threshold_gb", NoneVal)
       IN  /\ processing_log' = processing_log \o r.log
           /\ last_error' = r.error
           /\ IF r.ok
              THEN /\ memory_threshold' = r.value.v
                   /\ pc' = "dispatch" /\ exit_code' = exit_code
              ELSE /\ memory_threshold' = memory_threshold
                   /\ Exit(1)
    /\ UNCHANGED <<command, MNE_AVAILABLE, cfgDisk, config, validated,
                   runVars, fileVars, outVars, histVars>>

(* main(): file or directory; process_directory up to its loop *)
Dispatch ==
    /\ pc = "dispatch"
    /\ IF input_path.kind = "file"
       THEN /\ set_files' = Listing(FALSE, 1)
            /\ i' = 1
            /\ pc' = "single" /\ exit_code' = exit_code
            /\ UNCHANGED <<processing_log, last_error>>
       ELSE IF input_path.kind = "dir" /\ input_path.n_files > 0
       THEN /\ set_files' = Listing(input_path.recursive, input_path.n_files)
            /\ i' = 1
            /\ pc' = "batch" /\ exit_code' = exit_code
            /\ processing_log' = processing_log \o
                   <<Entry("Starting batch processing",
                           [directory |-> "data", n_files |-> input_path.n_files,
                            recursive |-> input_path.recursive])>>
            /\ UNCHANGED last_error
       ELSE /\ last_error' = IF input_path.kind = "dir"
                             THEN Err("ValueError", "No .set files found", 0)
                             ELSE NoError
            /\ Exit(1)
            /\ UNCHANGED <<set_files, i, processing_log>>
    /\ UNCHANGED <<command, MNE_AVAILABLE, cfgDisk, config, validated, memory_threshold,
                   input_path, suite, fileVars, outVars, histVars>>

-----------------------------------------------------------------------------
(* process_single_file, one action per step, for the file set_files[i] *)
InFile == pc \in {"single", "batch"} /\ i <= Len(set_files)
file_path == set_files[i]
Warn(texts) == warned \o [k \in 1..Len(texts) |-> <<i, texts[k]>>]

(* The locals of process_single_file, gone when it returns or raises *)
DropLocals ==
    /\ fpc' = "idle"
    /\ cur' = NoFile
    /\ data' = NoData
    /\ forward' = NoForward
    /\ source_estimates' = NoTensor
    /\ atlas_timecourses' = NoData
    /\ file_results' = NoData

(* Variant: process_directory without its try/except, the exception of a  *)
(* file ends the batch.                                                   *)
RaiseEndsBatch(e, log_so_far) ==
    /\ processing_log' = log_so_far \o <<Entry("Processing failed", [error |-> e])>>
    /\ last_error' = e
    /\ DropLocals
    /\ Exit(1)
    /\ UNCHANGED <<failed_files, i>>

(* except Exception of process_single_file (log, re-raise), then the      *)
(* caller: process_directory records the failure and goes on, main()      *)
(* returns 1.  log_so_far holds the entries appended before the raise.    *)
Raise(e, log_so_far) ==
    /\ processing_log' = log_so_far \o <<Entry("Processing failed", [error |-> e])>>
    /\ last_error' = e
    /\ DropLocals
    /\ IF pc = "batch"
       THEN /\ failed_files' = Append(failed_files, <<file_path, e>>)
            /\ i' = i + 1
            /\ UNCHANGED <<pc, exit_code>>
       ELSE /\ Exit(1)
            /\ UNCHANGED <<failed_files, i>>

(* Variant: every file starts a log of its own *)
StartFileFreshLog ==
    /\ InFile
    /\ fpc = "idle"
    /\ \E file \in suite :
          /\ (pc = "single" /\ command = "process") => file.exists
          /\ cur' = file
          /\ fileRec' = Append(fileRec, file)
          /\ warned' = IF file.mem_exceeded
                       THEN Warn(<<"Memory usage exceeds threshold",
                                   "High memory usage detected">>)
                       ELSE warned
    /\ attempts' = Append(attempts, i)
    /\ processing_log' =
           <<Entry("Starting single file processing", [file |-> file_path])>>
    /\ fpc' = "load"
    /\ UNCHANGED <<command, MNE_AVAILABLE, pc, exit_code, cfgDisk, config, last_error,
                   validated, memory_threshold, runVars, data, forward, source_estimates,
                   atlas_timecourses, file_results, results, failed_files, disk, rng,
                   validation_metrics, outcomes, cli_results>>

(* Start of process_single_file: first log entry and the memory check *)
StartFile ==
    /\ InFile
    /\ fpc = "idle"
    /\ \E file \in suite :
          /\ (pc = "single" /\ command = "process") => file.exists
          /\ cur' = file
          /\ fileRec' = Append(fileRec, file)
          /\ warned' = IF file.mem_exceeded
                       THEN Warn(<<"Memory usage exceeds threshold",
                                   "High memory usage detected">>)
                       ELSE warned
    /\ attempts' = Append(attempts, i)
    /\ processing_log' = processing_log \o
           <<Entry("Starting single file processing", [file |-> file_path])>>
    /\ fpc' = "load"
    /\ UNCHANGED <<command, MNE_AVAILABLE, pc, exit_code, cfgDisk, config, last_error,
                   validated, memory_threshold, runVars, data, forward, source_estimates,
                   atlas_timecourses, file_results, results, failed_files, disk, rng,
                   validation_metrics, outcomes, cli_results>>

(* Step 1: load_eeglab_file *)
LoadFile ==
    /\ InFile
    /\ fpc = "load"
    /\ LET r == load_eeglab_file(cur, file_path)
       IN  /\ warned' = Warn(r.warnings)
           /\ validation_metrics' = IF r.metrics # <<>>
                                    THEN Put(validation_metrics, file_path, r.metrics[1])
                                    ELSE validation_metrics
           /\ IF r.ok
              THEN /\ data' = r.data
                   /\ fpc' = "preprocess"
                   /\ processing_log' = processing_log \o r.log
                   /\ UNCHANGED <<pc, exit_code, last_error, i, failed_files, cur, forward,
                                  source_estimates, atlas_timecourses, file_results>>
              ELSE Raise(r.error, processing_log \o r.log)
    /\ UNCHANGED <<command, MNE_AVAILABLE, cfgDisk, config, validated, memory_threshold,
                   input_path, set_files, suite, results, disk, rng, histVars>>

(* Step 2: _preprocess_data, and the "Using pre-epoched data" entry *)
Preprocess ==
    /\ InFile
    /\ fpc = "preprocess"
    /\ LET r == _preprocess_data(config, data, cur.faults)
       IN  /\ warned' = Warn(r.warnings)
           /\ IF r.ok
              THEN /\ data' = r.data
                   /\ IF data.kind = "epochs"
                      THEN /\ fpc' = "forward"
                           /\ processing_log' = processing_log \o r.log \o
                                  <<Entry("Using pre-epoched data",
                                          [n_epochs |-> r.data.n_epochs])>>
                      ELSE /\ fpc' = "epoching"
                           /\ processing_log' = processing_log \o r.log
                   /\ UNCHANGED <<pc, exit_code, last_error, i, failed_files, cur, forward,
                                  source_estimates, atlas_timecourses, file_results>>
              ELSE Raise(r.error, processing_log \o r.log)
    /\ UNCHANGED <<command, MNE_AVAILABLE, cfgDisk, config, validated, memory_threshold,
                   input_path, set_files, suite, results, disk, rng, validation_metrics, histVars>>

(* Step 2, continuous data: _create_epochs *)
CreateEpochs ==
    /\ InFile
    /\ fpc = "epoching"
    /\ LET r == _create_epochs(data, cur.faults)
       IN  IF r.ok
           THEN /\ data' = r.data
                /\ fpc' = "forward"
                /\ processing_log' = processing_log \o r.log
                /\ UNCHANGED <<pc, exit_code, last_error, i, failed_files, cur, forward,
                               source_estimates, atlas_timecourses, file_results>>
           ELSE Raise(r.error, processing_log \o r.log)
    /\ UNCHANGED <<command, MNE_AVAILABLE, cfgDisk, config, validated, memory_threshold,
                   input_path, set_files, suite, results, disk, rng, warned, validation_metrics,
                   histVars>>

(* Variant: a failed forward model is raised to process_single_file *)
BuildForwardPropagates ==
    /\ InFile
    /\ fpc = "forward"
    /\ LET r == _build_forward_model(config, data, cur)
       IN  /\ warned' = Warn(r.warnings)
           /\ IF r.forward.built
              THEN /\ forward' = r.forward
                   /\ processing_log' = processing_log \o r.log
                   /\ fpc' = "inverse"
                   /\ UNCHANGED <<pc, exit_code, last_error, i, failed_files, cur, data,
                                  source_estimates, atlas_timecourses, file_results>>
              ELSE Raise(r.error, processing_log \o r.log)
    /\ UNCHANGED <<command, MNE_AVAILABLE, cfgDisk, config, validated, memory_threshold,
                   input_path, set_files, suite, results, disk, rng, validation_metrics, histVars>>

(* Step 4: _build_forward_model *)
BuildForward ==
    /\ InFile
    /\ fpc = "forward"
    /\ LET r == _build_forward_model(config, data, cur)
       IN  /\ forward' = r.forward
           /\ processing_log' = processing_log \o r.log
           /\ warned' = Warn(r.warnings)
    /\ fpc' = "inverse"
    /\ UNCHANGED <<command, MNE_AVAILABLE, pc, exit_code, cfgDisk, config, last_error,
                   validated, memory_threshold, runVars, cur, data, source_estimates,
                   atlas_timecourses, file_results, results, failed_files, disk, rng,
                   validation_metrics, histVars>>

(* Step 5: _compute_inverse_solution *)
ComputeInverse ==
    /\ InFile
    /\ fpc = "inverse"
    /\ LET r == _compute_inverse_solution(config, data, forward, cur.faults, rng)
       IN  /\ source_estimates' = r.source_data
           /\ rng' = r.state
           /\ processing_log' = processing_log \o r.log
           /\ warned' = Warn(r.warnings)
    /\ fpc' = "atlas"
    /\ UNCHANGED <<command, MNE_AVAILABLE, pc, exit_code, cfgDisk, config, last_error,
                   validated, memory_threshold, runVars, cur, data, forward,
                   atlas_timecourses, file_results, results, failed_files, disk,
                   validation_metrics, histVars>>

(* Step 6: _apply_atlas_parcellation *)
ApplyAtlas ==
    /\ InFile
    /\ fpc = "atlas"
    /\ LET r == _apply_atlas_parcellation(source_estimates)
       IN  /\ atlas_timecourses' = r.atlas
           /\ processing_log' = processing_log \o r.log
    /\ fpc' = "save"
    /\ UNCHANGED <<command, MNE_AVAILABLE, pc, exit_code, cfgDisk, config, last_error,
                   validated, memory_threshold, runVars, cur, data, forward,
                   source_estimates, file_results, outVars, histVars>>

(* Step 7: _save_results *)
SaveResults ==
    /\ InFile
    /\ fpc = "save"
    /\ LET r == _save_results(file_path, atlas_timecourses, config, processing_log)
       IN  /\ disk' = [npy |-> Put(disk.npy, r.npy_name, r.npy),
                       json |-> Put(disk.json, r.json_name, r.json)]
           /\ file_results' = r.returned
           /\ processing_log' = processing_log \o r.log
    /\ fpc' = "return"
    /\ UNCHANGED <<command, MNE_AVAILABLE, pc, exit_code, cfgDisk, config, last_error,
                   validated, memory_threshold, runVars, cur, data, forward,
                   source_estimates, atlas_timecourses, results, failed_files, rng,
                   warned, validation_metrics, histVars>>

(* Variant: process_single_file returns without its completion entry *)
CompleteFileUnmarked ==
    /\ InFile
    /\ fpc = "return"
    /\ processing_log' = processing_log
    /\ results' = Put(results, file_path, file_results)
    /\ DropLocals
    /\ IF pc = "batch"
       THEN i' = i + 1 /\ UNCHANGED <<pc, exit_code>>
       ELSE Exit(0) /\ i' = i
    /\ UNCHANGED <<command, MNE_AVAILABLE, cfgDisk, config, last_error, validated,
                   memory_threshold, input_path, set_files, suite, failed_files, disk, rng,
                   warned, validation_metrics, histVars>>

(* End of process_single_file: last log entry, return; the caller keeps   *)
(* the result (process_directory) or returns 0 (main, single file).       *)
CompleteFile ==
    /\ InFile
    /\ fpc = "return"
    /\ processing_log' = processing_log \o
           <<Entry("Processing completed successfully", NoDetails)>>
    /\ results' = Put(results, file_path, file_results)
    /\ DropLocals
    /\ IF pc = "batch"
       THEN i' = i + 1 /\ UNCHANGED <<pc, exit_code>>
       ELSE Exit(0) /\ i' = i
    /\ UNCHANGED <<command, MNE_AVAILABLE, cfgDisk, config, last_error, validated,
                   memory_threshold, input_path, set_files, suite, failed_files, disk, rng,
                   warned, validation_metrics, histVars>>

(* process_directory after its loop: the summary, and main() returning 0 *)
BatchSummary ==
    /\ pc = "batch"
    /\ i > Len(set_files)
    /\ LET n_success == Cardinality(DOMAIN results)
           n_failed == Len(failed_files)
       IN  processing_log' = processing_log \o
               <<Entry("Batch processing completed",
                       [n_success |-> n_success, n_failed |-> n_failed])>>
    /\ Exit(0)
    /\ UNCHANGED <<command, MNE_AVAILABLE, cfgDisk, config, last_error, validated,
                   memory_threshold, runVars, fileVars, outVars, histVars>>

-----------------------------------------------------------------------------
(* process_command of cli.py, standard sequential processor.              *)
(* SequentialProcessor.process_file is not part of the sources at hand:   *)
(* as its callers use it, it returns a dict with a status or raises.      *)
ProcessFileOutcomes == {"success", "failed", "raise"}

(* The dict that the loop appends for one file *)
CliResult(path, outcome) ==
    [input_file |-> path, status |-> IF outcome = "success" THEN "success" ELSE "failed",
     raised |-> outcome = "raise"]

CliStart ==
    /\ pc = "main"
    /\ command = "cli"
    /\ IF input_path.n_files = 0
       THEN Exit(1) /\ UNCHANGED <<set_files, i>>
       ELSE /\ set_files' = Listing(input_path.recursive, input_path.n_files)
            /\ i' = 1
            /\ pc' = "cli_loop" /\ exit_code' = exit_code
    /\ UNCHANGED <<command, MNE_AVAILABLE, cfgVars, input_path, suite, fileVars, outVars,
                   histVars>>

CliProcessFile ==
    /\ pc = "cli_loop"
    /\ i <= Len(set_files)
    /\ \E outcome \in ProcessFileOutcomes :
          cli_results' = Append(cli_results, CliResult(file_path, outcome))
    /\ attempts' = Append(attempts, i)
    /\ i' = i + 1
    /\ UNCHANGED <<command, MNE_AVAILABLE, pc, exit_code, cfgVars, input_path, set_files,
                   suite, fileVars, outVars, fileRec, outcomes>>

(* Number of results with status 'success' *)
CliSuccessful(rs) == Cardinality({k \in 1..Len(rs) : rs[k].status = "success"})

CliSummary ==
    /\ pc = "cli_loop"
    /\ i > Len(set_files)
    /\ LET successful == CliSuccessful(cli_results)
           failed == Len(cli_results) - successful
       IN  Exit(IF failed = 0 THEN 0 ELSE 1)
    /\ UNCHANGED <<command, MNE_AVAILABLE, cfgVars, runVars, fileVars, outVars, histVars>>

-----------------------------------------------------------------------------
(* A bare call of DataLoader._validate_raw_data on a recording, repeated *)
InitCheck ==
    /\ Fresh
    /\ command = "check"
    /\ rng = 0
    /\ suite = CheckedRecordings
    /\ MNE_AVAILABLE = TRUE
    /\ cfgDisk = BaseConfig
    /\ input_path = [kind |-> "missing", recursive |-> FALSE, n_files |-> 0]

PickRecording ==
    /\ command = "check"
    /\ pc = "main"
    /\ \E file \in suite :
          /\ cur' = file
          /\ data' = MakeData(file, "raw")
    /\ pc' = "check"
    /\ UNCHANGED <<command, MNE_AVAILABLE, exit_code, cfgVars, runVars, fpc, forward,
                   source_estimates, atlas_timecourses, file_results, outVars, histVars>>

CheckRecording ==
    /\ pc = "check"
    /\ Len(outcomes) < MaxCalls
    /\ LET r == _validate_raw_data(data)
       IN  /\ data' = r.raw_after
           /\ outcomes' = Append(outcomes, [ok |-> r.ok, error |-> r.error,
                                            warnings |-> r.warnings, metrics |-> r.metrics])
           /\ warned' = warned \o [k \in 1..Len(r.warnings) |-> <<0, r.warnings[k]>>]
           /\ validation_metrics' = IF r.ok THEN Put(validation_metrics, "file", r.metrics[1])
                                    ELSE validation_metrics
    /\ UNCHANGED <<command, MNE_AVAILABLE, pc, exit_code, cfgVars, runVars, fpc, cur,
                   forward, source_estimates, atlas_timecourses, file_results, results,
                   failed_files, disk, rng, fileRec, attempts, cli_results>>

-----------------------------------------------------------------------------
(* Bare calls of ScientificConfigManager.get_parameter on a manager built *)
(* from a configuration file, repeated.                                   *)
LookupConfigs ==
    {BaseConfig, [BaseConfig EXCEPT !.parseable = FALSE],
     [BaseConfig EXCEPT !.has_memory_threshold = FALSE]}
    \cup {[BaseConfig EXCEPT !.montage = x] : x \in {"wrapped", "absent"}}
LookupSections == {"scientific_parameters", "processing_parameters", "output_parameters"}
LookupParameters == {"montage", "memory_threshold_gb", "atlas"}
LookupDefaults == {NoneVal, Num(0), Str("standard_1005")}

InitLookup ==
    /\ Fresh
    /\ command = "lookup"
    /\ rng = 0
    /\ suite = {}
    /\ MNE_AVAILABLE = TRUE
    /\ cfgDisk \in LookupConfigs
    /\ input_path = [kind |-> "missing", recursive |-> FALSE, n_files |-> 0]

(* ScientificConfigManager.__init__ *)
NewManager ==
    /\ command = "lookup"
    /\ pc = "main"
    /\ LET r == _load_config(cfgDisk)
       IN  /\ processing_log' = r.log
           /\ config' = r.config
           /\ last_error' = r.error
           /\ IF r.ok
              THEN pc' = "lookup" /\ exit_code' = exit_code
              ELSE Exit(1)
    /\ UNCHANGED <<command, MNE_AVAILABLE, cfgDisk, validated, memory_threshold,
                   runVars, fileVars, outVars, histVars>>

Lookup ==
    /\ pc = "lookup"
    /\ Len(outcomes) < MaxCalls
    /\ \E section \in LookupSections, parameter \in LookupParameters,
          default \in LookupDefaults :
          LET r == get_parameter(config, section, parameter, default)
          IN  /\ processing_log' = processing_log \o r.log
              /\ last_error' = r.error
              /\ outcomes' = Append(outcomes,
                     [section |-> section, parameter |-> parameter, default |-> default,
                      ok |-> r.ok, value |-> r.value, error |-> r.error,
                      before |-> Len(processing_log),
                      after |-> Len(processing_log) + Len(r.log)])
    /\ UNCHANGED <<command, MNE_AVAILABLE, pc, exit_code, cfgDisk, config, validated,
                   memory_threshold, runVars, fileVars, outVars, fileRec, attempts,
                   cli_results>>

-----------------------------------------------------------------------------
(* A direct call of process_single_file on a processor built with the     *)
(* default arguments, as the unit tests make it: the path is not checked  *)
(* by main() first.                                                       *)
ApiFiles ==
    {BaseFile, RawFile, [BaseFile EXCEPT !.reader = "error"]}
    \cup {[f EXCEPT !.exists = e, !.suffix_ok = x] :
             f \in {BaseFile, RawFile}, e \in BOOLEAN, x \in BOOLEAN}

InitApi ==
    /\ Fresh
    /\ command = "api"
    /\ rng \in {0, 7}
    /\ suite = ApiFiles
    /\ MNE_AVAILABLE = TRUE
    /\ cfgDisk \in {BaseConfig, [BaseConfig EXCEPT !.montage = "wrapped"],
                     [BaseConfig EXCEPT !.exists = FALSE]}
    /\ input_path = [kind |-> "file", recursive |-> FALSE, n_files |-> 1]

(* StandaloneEEGProcessor(): the constructor call of the caller *)
ApiStart ==
    /\ command = "api"
    /\ pc = "main"
    /\ pc' = "load_config"
    /\ UNCHANGED <<command, MNE_AVAILABLE, exit_code, cfgVars, runVars, fileVars, outVars,
                   histVars>>

-----------------------------------------------------------------------------
Next ==
    \/ MainStart
    \/ LoadConfig
    \/ ValidateConfig
    \/ InitMemory
    \/ Dispatch
    \/ StartFile
    \/ LoadFile
    \/ Preprocess
    \/ CreateEpochs
    \/ BuildForward
    \/ ComputeInverse
    \/ ApplyAtlas
    \/ SaveResults
    \/ CompleteFile
    \/ BatchSummary
    \/ CliStart
    \/ CliProcessFile
    \/ CliSummary

Spec == Init /\ [][Next]_vars

NextValidate ==
    \/ MainStart
    \/ LoadConfig
    \/ ValidateConfig

NextFile ==
    \/ MainStart
    \/ LoadConfig
    \/ ValidateConfig
    \/ InitMemory
    \/ Dispatch
    \/ StartFile
    \/ LoadFile
    \/ Preprocess
    \/ CreateEpochs
    \/ BuildForward
    \/ ComputeInverse
    \/ ApplyAtlas
    \/ SaveResults
    \/ CompleteFile
    \/ BatchSummary

SpecFile == InitFile /\ [][NextFile]_vars

SpecValidate == InitValidate /\ [][NextValidate]_vars

NextCheck ==
    \/ PickRecording
    \/ CheckRecording

SpecCheck == InitCheck /\ [][NextCheck]_vars

NextApi ==
    \/ ApiStart
    \/ LoadConfig
    \/ ValidateConfig
    \/ InitMemory
    \/ Dispatch
    \/ StartFile
    \/ LoadFile
    \/ Preprocess
    \/ CreateEpochs
    \/ BuildForward
    \/ ComputeInverse
    \/ ApplyAtlas
    \/ SaveResults
    \/ CompleteFile

SpecApi == InitApi /\ [][NextApi]_vars

NextLookup ==
    \/ NewManager
    \/ Lookup

SpecLookup == InitLookup /\ [][NextLookup]_vars

-----------------------------------------------------------------------------
(* Reading the processing log *)
LastIndex(log, action) ==
    IF \E k \in 1..Len(log) : log[k].action = action
    THEN CHOOSE k \in 1..Len(log) :
            log[k].action = action /\ \A j \in (k+1)..Len(log) : log[j].action # action
    ELSE 0
EntriesFrom(log, from, action) == {k \in from..Len(log) : k >= 1 /\ log[k].action = action}
Terminal == {"Processing completed successfully", "Processing failed"}

(* The first terminal entry of a file's run after position j, 0 if none yet *)
NextTerminal(log, j) ==
    IF \E k \in (j+1)..Len(log) : log[k].action \in Terminal
    THEN CHOOSE k \in (j+1)..Len(log) :
            log[k].action \in Terminal /\ \A m \in (j+1)..(k-1) : log[m].action \notin Terminal
    ELSE 0

Finished(k) == k < i \/ pc = "done"
FailedPaths == {failed_files[k][1] : k \in 1..Len(failed_files)}
BatchRun == command = "process" /\ input_path.kind = "dir" /\ set_files # <<>>
CliRun == command = "cli" /\ set_files # <<>>

-----------------------------------------------------------------------------
(* C1: in every batch run (process_directory, and the loop of             *)
(* process_command) every submitted file is attempted exactly once, in    *)
(* order; a file whose processing raises is recorded as failed and is not *)
(* in the results, the files after it are still processed, and at the end *)
(* successful + failed = number of files submitted.                       *)
C1_BatchAccounting ==
    /\ BatchRun =>
          /\ \A k \in 1..Len(attempts) : attempts[k] = k
          /\ Len(attempts) <= Len(set_files)
          /\ FailedPaths \cap DOMAIN results = {}
          /\ \A k \in 1..Len(set_files) :
                Finished(k) => /\ k <= Len(attempts)
                               /\ set_files[k] \in FailedPaths \cup DOMAIN results
          /\ fpc = "idle" /\ pc = "batch" =>
                Cardinality(DOMAIN results) + Len(failed_files) = i - 1
          /\ pc = "done" =>
                /\ Len(attempts) = Len(set_files)
                /\ Cardinality(DOMAIN results) + Len(failed_files) = Len(set_files)
    /\ CliRun =>
          /\ \A k \in 1..Len(attempts) : attempts[k] = k
          /\ Len(cli_results) = Len(attempts)
          /\ \A k \in 1..Len(cli_results) :
                /\ cli_results[k].input_file = set_files[k]
                /\ cli_results[k].raised => cli_results[k].status = "failed"
          /\ pc = "done" =>
                /\ Len(attempts) = Len(set_files)
                /\ CliSuccessful(cli_results)
                     + Cardinality({k \in 1..Len(cli_results) : cli_results[k].status = "failed"})
                   = Len(set_files)

(* A batch whose first file failed and whose second file succeeded *)
C1_Witness ==
    /\ BatchRun
    /\ pc = "done"
    /\ Len(set_files) >= 2
    /\ set_files[1] \in FailedPaths
    /\ set_files[2] \in DOMAIN results

-----------------------------------------------------------------------------
(* C2 (as claimed): for every file that completes, on the genuine path    *)
(* and on the simulation path, the first axis of the saved tensor is 68   *)
(* and equals the length of the region-name list saved with it, which     *)
(* holds 34 '-lh' names followed by 34 '-rh' names.                       *)
C2_RegionDimension ==
    (InFile /\ fpc = "return") =>
        LET saved == disk.npy[file_path.stem]
            names == json_load(disk.json[file_path.stem]).atlas_info.region_names
        IN  /\ saved.shape[1] = 68
            /\ saved.shape[1] = Len(names)
            /\ \A k \in 1..34 : names[k].hemi = "lh"
            /\ \A k \in 35..68 : names[k].hemi = "rh"

-----------------------------------------------------------------------------
(* C3: _build_forward_model never propagates an exception.  Whatever step *)
(* fails (asset fetch, montage resolution, renaming, position attachment, *)
(* fewer than 8 located channels, leadfield), a "Forward model failed"    *)
(* entry carrying the error is appended, None is returned, the inverse    *)
(* stage takes the simulation path and the file ends successfully.        *)
ForwardMustFail(file, cfg) ==
    \/ file.faults \cap (ForwardFaults \ {"rename"}) # {}
    \/ "rename" \in file.faults /\ file.ch_names \in {LowerCased, Clashing}
    \/ file.ch_names = Clashing
    \/ Len(file.ch_names) < 8
    \/ ~HasKey(cfg.v["scientific_parameters"], "montage")

C3_ForwardFailureIsNotFatal ==
    /\ \A j \in 1..Len(processing_log) :
          processing_log[j].action = "Forward model failed" =>
             /\ processing_log[j].details.error.type # "none"
             /\ NextTerminal(processing_log, j) # 0 =>
                   processing_log[NextTerminal(processing_log, j)].action
                      = "Processing completed successfully"
    /\ (InFile /\ fpc \in {"inverse", "atlas", "save", "return"}) =>
          /\ ForwardMustFail(cur, config) =>
                /\ forward = NoForward
                /\ EntriesFrom(processing_log,
                               LastIndex(processing_log, "Building forward model"),
                               "Forward model failed") # {}
          /\ (~forward.built /\ fpc # "inverse") =>
                source_estimates.shape = <<68, data.n_times, data.n_epochs>>
    /\ \A k \in 1..Len(fileRec) :
          (Finished(k) /\ set_files[k] \in FailedPaths) =>
             ~(fileRec[k].exists /\ fileRec[k].reader = "epochs" /\ fileRec[k].faults \subseteq ForwardFaults)

(* A recording with 5 located channels went through: the gate failed with *)
(* the count 5, and the file completed.                                   *)
C3_Witness ==
    /\ pc = "done"
    /\ exit_code = 0
    /\ DOMAIN results # {}
    /\ \E j \in 1..Len(processing_log) :
          /\ processing_log[j].action = "Forward model failed"
          /\ processing_log[j].details.error.arg = 5
          /\ NextTerminal(processing_log, j) # 0

-----------------------------------------------------------------------------
(* C4: _compute_inverse_solution returns a tensor in every case.  With no *)
(* forward model it returns the simulated tensor; when the genuine        *)
(* computation raises it appends an "Inverse solution failed" entry       *)
(* carrying the error and returns the simulated tensor; otherwise it      *)
(* returns the genuine estimate.  In no case does the file fail.          *)
InverseMustRaise(file) ==
    \/ "baseline" \in file.faults /\ ~file.has_baseline
    \/ file.faults \cap {"covariance", "operator", "apply"} # {}

SimulatedShape(d) == <<68, d.n_times, d.n_epochs>>
InverseEntries(action) ==
    EntriesFrom(processing_log, LastIndex(processing_log, "Computing inverse solution"), action)

C4_InverseAlwaysReturns ==
    /\ (InFile /\ fpc \in {"atlas", "save", "return"}) =>
          /\ source_estimates # NoTensor
          /\ Len(source_estimates.values) > 0
          /\ ~forward.built =>
                /\ source_estimates.shape = SimulatedShape(data)
                /\ InverseEntries("Inverse solution failed") = {}
                /\ InverseEntries("Inverse solution computed successfully") = {}
          /\ (forward.built /\ InverseMustRaise(cur)) =>
                /\ source_estimates.shape = SimulatedShape(data)
                /\ \E j \in InverseEntries("Inverse solution failed") :
                      processing_log[j].details.error.type # "none"
                /\ InverseEntries("Inverse solution computed successfully") = {}
          /\ (forward.built /\ ~InverseMustRaise(cur)) =>
                /\ source_estimates.shape = <<forward.nsource, data.n_times, data.n_epochs>>
                /\ InverseEntries("Inverse solution failed") = {}
                /\ InverseEntries("Inverse solution computed successfully") # {}
    /\ \A j \in 1..Len(processing_log) :
          processing_log[j].action \in {"Computing inverse solution", "Inverse solution failed"} =>
             (NextTerminal(processing_log, j) # 0 =>
                 processing_log[NextTerminal(processing_log, j)].action
                    = "Processing completed successfully")

(* A file whose forward model was built and whose covariance estimation   *)
(* raised was saved with a simulated tensor and reported successful.      *)
C4_Witness ==
    /\ pc = "done"
    /\ exit_code = 0
    /\ Len(fileRec) = 1
    /\ "covariance" \in fileRec[1].faults
    /\ \E j \in 1..Len(processing_log) :
          processing_log[j].action = "Forward model built successfully"
    /\ set_files[1] \in DOMAIN results
    /\ disk.npy[set_files[1].stem].shape = <<68, fileRec[1].n_times, fileRec[1].n_epochs>>
    /\ \E j \in 1..Len(processing_log) : processing_log[j].action = "Inverse solution failed"

-----------------------------------------------------------------------------
(* C5: _validate_raw_data fails exactly when the recording holds a NaN or *)
(* an infinite sample, with "Data contains NaN or infinite values";       *)
(* otherwise it passes, adding quality warnings only.  It leaves the      *)
(* recording unchanged, and repeated calls on the same recording give the *)
(* same outcome.                                                          *)
C5_ValidationOutcome ==
    pc = "check" =>
        /\ data = MakeData(cur, "raw")
        /\ \A k \in 1..Len(outcomes) :
              /\ outcomes[k].ok <=> ~(cur.has_nan \/ cur.has_inf)
              /\ ~outcomes[k].ok =>
                    /\ outcomes[k].error.type = "ValueError"
                    /\ outcomes[k].error.msg = "Data contains NaN or infinite values"
              /\ outcomes[k].ok =>
                    /\ outcomes[k].error = NoError
                    /\ outcomes[k].metrics =
                          <<[n_channels |-> Len(cur.ch_names), n_times |-> cur.n_times,
                             duration_s |-> cur.duration_s, sampling_rate |-> cur.sfreq]>>
                    /\ "Low channel count" \in Range(outcomes[k].warnings)
                          <=> Len(cur.ch_names) < 32
                    /\ "Short recording" \in Range(outcomes[k].warnings)
                          <=> cur.duration_s < 60
                    /\ "Low sampling rate" \in Range(outcomes[k].warnings)
                          <=> cur.sfreq < 25000
                    /\ "Unusually large voltage range" \in Range(outcomes[k].warnings)
                          <=> cur.data_range > 1000000
                    /\ "Unusually small voltage range" \in Range(outcomes[k].warnings)
                          <=> cur.data_range < 10
              /\ outcomes[k] = outcomes[1]

(* Two calls on a recording with an infinite sample and no NaN, both      *)
(* refused.                                                               *)
C5_Witness ==
    /\ pc = "check"
    /\ Len(outcomes) >= 2
    /\ cur.has_inf /\ ~cur.has_nan
    /\ ~outcomes[1].ok /\ ~outcomes[2].ok

-----------------------------------------------------------------------------
(* C6 (as claimed): a file holding NaN or infinite samples never yields   *)
(* source-localized output: it is recorded as failed, it is not among the *)
(* results and no artifact is written for it.                             *)
C6_CorruptNeverProcessed ==
    BatchRun =>
        \A k \in 1..Len(fileRec) :
            (Finished(k) /\ (fileRec[k].has_nan \/ fileRec[k].has_inf)) =>
                /\ set_files[k] \notin DOMAIN results
                /\ set_files[k] \in FailedPaths

-----------------------------------------------------------------------------
(* C7: validate_scientific_parameters accepts a configuration exactly     *)
(* when 0.001 <= lambda2 <= 1.0, 50 <= target_srate <= 2000 and           *)
(* highpass_freq < lowpass_freq; otherwise it fails with the error of the *)
(* first violated condition.  (lambda2 in 1/1000, frequencies in 1/100 Hz)*)
InRange(c) ==
    /\ 1 <= c.lambda2 /\ c.lambda2 <= 1000
    /\ 5000 <= c.target_srate /\ c.target_srate <= 200000
    /\ c.highpass_freq < c.lowpass_freq
Loadable(c) == c.exists /\ c.parseable /\ c.sections = AllSections

C7_ParameterRanges ==
    (command = "validate" /\ pc = "done" /\ Loadable(cfgDisk)) =>
        /\ validated <=> InRange(cfgDisk)
        /\ InRange(cfgDisk) => exit_code = 0 /\ last_error = NoError
        /\ ~InRange(cfgDisk) =>
              /\ exit_code = 1
              /\ last_error.type = "ValueError"
              /\ last_error.msg =
                    IF ~(1 <= cfgDisk.lambda2 /\ cfgDisk.lambda2 <= 1000)
                    THEN "lambda2 outside scientific range [0.001, 1.0]"
                    ELSE IF ~(5000 <= cfgDisk.target_srate /\ cfgDisk.target_srate <= 200000)
                    THEN "Sampling rate outside typical EEG range [50, 2000] Hz"
                    ELSE "Highpass freq must be less than lowpass freq"

(* The configuration on every inclusive bound is accepted *)
C7_Witness ==
    /\ command = "validate" /\ pc = "done"
    /\ validated
    /\ cfgDisk.lambda2 = 1000
    /\ cfgDisk.target_srate = 5000

-----------------------------------------------------------------------------
(* C8: loading a configuration fails with the not-found error when the    *)
(* path does not exist, with the malformed error when the file is not     *)
(* parseable, and with the incomplete error when one of the sections      *)
(* scientific_parameters, processing_parameters, metadata is absent; in   *)
(* each failure no configuration is produced, and only a file that is     *)
(* parseable and has all three sections loads.                            *)
C8_LoadOutcome ==
    (command = "validate" /\ pc \notin {"main", "load_config"}) =>
        /\ config.t = "dict" <=> Loadable(cfgDisk)
        /\ ~Loadable(cfgDisk) => pc = "done" /\ exit_code = 1 /\ config = NoneVal
        /\ ~cfgDisk.exists =>
              last_error = Err("FileNotFoundError", "Configuration file not found", 0)
        /\ (cfgDisk.exists /\ ~cfgDisk.parseable) =>
              last_error = Err("ValueError", "Invalid JSON in configuration file", 0)
        /\ (cfgDisk.exists /\ cfgDisk.parseable /\ cfgDisk.sections # AllSections) =>
              /\ last_error.type = "ValueError"
              /\ last_error.msg = "Missing required configuration section"
              /\ required_sections[last_error.arg] \notin cfgDisk.sections
        /\ Loadable(cfgDisk) =>
              /\ processing_log[1].action = "Configuration loaded successfully"
              /\ DOMAIN config.v = AllSections

(* A parseable file without its metadata section was refused *)
C8_Witness ==
    /\ command = "validate" /\ pc = "done"
    /\ cfgDisk.exists /\ cfgDisk.parseable
    /\ cfgDisk.sections = AllSections \ {"metadata"}
    /\ config = NoneVal
    /\ last_error.msg = "Missing required configuration section"

-----------------------------------------------------------------------------
(* C9: in a run of the process command no input file is loaded or         *)
(* processed, and nothing is written, unless the configuration was loaded *)
(* and validated earlier in the run; a missing, malformed, incomplete or  *)
(* out-of-range configuration ends the run with exit code 1 first.        *)
Touched ==
    \/ attempts # <<>>
    \/ fileRec # <<>>
    \/ fpc # "idle"
    \/ DOMAIN disk.npy # {} \/ DOMAIN disk.json # {}
    \/ DOMAIN results # {} \/ failed_files # <<>>
    \/ \E k \in 1..Len(processing_log) :
          processing_log[k].action \in {"Starting single file processing", "Loading EEGLAB file"}
ConfigGood(c) == Loadable(c) /\ InRange(c)

C9_ConfigBeforeFiles ==
    command = "process" =>
        /\ Touched =>
              /\ ConfigGood(cfgDisk)
              /\ validated
              /\ config.t = "dict"
              /\ \E k \in 1..Len(processing_log) :
                    /\ processing_log[k].action = "Scientific parameters validated successfully"
                    /\ \A j \in 1..k : processing_log[j].action # "Starting single file processing"
        /\ ~ConfigGood(cfgDisk) =>
              /\ pc \in {"main", "load_config", "validate_config", "done"}
              /\ pc = "done" => exit_code = 1

(* A run given a configuration with lambda2 = 1.001 ended with exit code  *)
(* 1 and touched nothing.                                                 *)
C9_Witness ==
    /\ command = "process" /\ pc = "done"
    /\ cfgDisk.lambda2 = 1001
    /\ exit_code = 1
    /\ ~Touched

-----------------------------------------------------------------------------
(* C10: the output of the simulation fallback is a function of its shape  *)
(* alone: whatever the state of the generator before, whatever files were *)
(* processed before, and through either branch, fallback tensors with the *)
(* same number of time points and epochs are identical, of shape          *)
(* (68, n_times, n_epochs).                                               *)
SimulatedLog(log) ==
    /\ LastIndex(log, "Computing inverse solution") # 0
    /\ EntriesFrom(log, LastIndex(log, "Computing inverse solution"),
                   "Inverse solution computed successfully") = {}
SeededDraw(n_times, n_epochs) ==
    [shape |-> <<68, n_times, n_epochs>>,
     values |-> [k \in 1..(68 * n_times * n_epochs) |-> Sample(42, k)]]

C10_FallbackDeterministic ==
    /\ \A s1 \in DOMAIN disk.npy : \A s2 \in DOMAIN disk.npy :
          (/\ SimulatedLog(json_load(disk.json[s1]).processing_log)
           /\ SimulatedLog(json_load(disk.json[s2]).processing_log)
           /\ disk.npy[s1].shape[2] = disk.npy[s2].shape[2]
           /\ disk.npy[s1].shape[3] = disk.npy[s2].shape[3]) => disk.npy[s1] = disk.npy[s2]
    /\ \A s \in DOMAIN disk.npy :
          SimulatedLog(json_load(disk.json[s]).processing_log) =>
             disk.npy[s] = SeededDraw(disk.npy[s].shape[2], disk.npy[s].shape[3])
    /\ (InFile /\ fpc \in {"atlas", "save"} /\ SimulatedLog(processing_log)) =>
          source_estimates = SeededDraw(data.n_times, data.n_epochs)

(* Two files of one batch, the first without a forward model, the second  *)
(* with a failed covariance estimation, left identical tensors.           *)
C10_Witness ==
    /\ BatchRun /\ pc = "done"
    /\ Len(fileRec) = 2
    /\ fileRec[1].faults = {"fetch"} /\ fileRec[2].faults = {"covariance"}
    /\ fileRec[1].n_times = MaxTimes /\ fileRec[1].n_epochs = MaxEpochs
    /\ fileRec[2].n_times = MaxTimes /\ fileRec[2].n_epochs = MaxEpochs
    /\ set_files[1].stem # set_files[2].stem
    /\ {set_files[1].stem, set_files[2].stem} \subseteq DOMAIN disk.npy
    /\ disk.npy[set_files[1].stem] = disk.npy[set_files[2].stem]
    /\ disk.npy[set_files[1].stem].shape = <<68, MaxTimes, MaxEpochs>>

-----------------------------------------------------------------------------
(* C11: for every persisted result, the processing log persisted with it  *)
(* tells whether the tensor is simulated or genuine: the entries of that  *)
(* file's run (from its "Starting single file processing" entry on) hold  *)
(* an entry flagging the fallback exactly when the tensor is the          *)
(* simulated one.                                                         *)
FallbackFlags == {"Forward model failed", "Inverse solution failed"}
RunStart(log) == LastIndex(log, "Starting single file processing")
RunFlags(log) == {k \in RunStart(log)..Len(log) : k >= 1 /\ log[k].action \in FallbackFlags}
IsSimulatedTensor(t) == t = SeededDraw(t.shape[2], t.shape[3])
IsGenuineTensor(t) == t.shape[1] # 68 /\ Len(t.values) = 2 /\ t.values[2] = AppliedLambda2

C11_FallbackIsFlagged ==
    \A s \in DOMAIN disk.npy :
        /\ s \in DOMAIN disk.json
        /\ RunStart(json_load(disk.json[s]).processing_log) # 0
        /\ IsSimulatedTensor(disk.npy[s]) \/ IsGenuineTensor(disk.npy[s])
        /\ IsSimulatedTensor(disk.npy[s]) <=> RunFlags(json_load(disk.json[s]).processing_log) # {}
        /\ IsGenuineTensor(disk.npy[s]) <=> RunFlags(json_load(disk.json[s]).processing_log) = {}

(* A batch whose first file was simulated and whose second file was       *)
(* solved: the second document holds the first file's flag before its own *)
(* run and none within it.                                                *)
C11_Witness ==
    /\ BatchRun /\ pc = "done"
    /\ Len(fileRec) = 2
    /\ set_files[1].stem # set_files[2].stem
    /\ {set_files[1].stem, set_files[2].stem} \subseteq DOMAIN disk.npy
    /\ IsSimulatedTensor(disk.npy[set_files[1].stem])
    /\ IsGenuineTensor(disk.npy[set_files[2].stem])
    /\ \E k \in 1..Len(json_load(disk.json[set_files[2].stem]).processing_log) :
          json_load(disk.json[set_files[2].stem]).processing_log[k].action \in FallbackFlags

-----------------------------------------------------------------------------
(* C12 (as claimed): every warning raised while a file is processed - low *)
(* channel count, short recording, low sampling rate, implausible voltage *)
(* range, memory threshold exceeded, filtering failure, forward-model     *)
(* failure, use of the simulated inverse solution - has a processing-log  *)
(* entry recording it, appended during the same file's run.               *)
StartsOf(log) == {j \in 1..Len(log) : log[j].action = "Starting single file processing"}
NthStart(log, k) ==
    IF \E j \in StartsOf(log) : Cardinality({m \in StartsOf(log) : m < j}) = k - 1
    THEN CHOOSE j \in StartsOf(log) : Cardinality({m \in StartsOf(log) : m < j}) = k - 1
    ELSE 0
RunOf(log, k) ==
    IF NthStart(log, k) = 0 THEN {}
    ELSE {j \in NthStart(log, k)..Len(log) :
             \A m \in StartsOf(log) : m > NthStart(log, k) => j < m}

(* The entry records the warning: it carries the warning's text, or it is *)
(* the entry the code appends next to that warning.                       *)
Records(action, text) ==
    \/ action = text
    \/ text = "Epoch filtering failed" /\ action = "Filtering failed for epochs"
    \/ text = "Forward model construction failed" /\ action = "Forward model failed"
    \/ /\ text = "Using simulated inverse solution due to forward model failure"
       /\ action = "Forward model failed"

C12_NoSilentDegradation ==
    \A w \in 1..Len(warned) :
        Finished(warned[w][1]) =>
            \E j \in RunOf(processing_log, warned[w][1]) :
                Records(processing_log[j].action, warned[w][2])

-----------------------------------------------------------------------------
(* The file at position k of the listing completed, and no later file of  *)
(* the listing writes artifacts of the same name.                         *)
Persisted(k) ==
    /\ k \in 1..Len(fileRec)
    /\ Finished(k)
    /\ set_files[k] \in DOMAIN results
    /\ \A m \in (k+1)..Len(fileRec) : set_files[m].stem # set_files[k].stem
DocOf(k) == json_load(disk.json[set_files[k].stem])

(* C13 (as claimed): for a fixed configuration the artifacts written for  *)
(* a file depend only on its own recording and the configuration, not on  *)
(* the other files of the batch or on the order of processing: the array  *)
(* is determined by the file's recording, and the document holds no entry *)
(* of another file's run.                                                 *)
C13_OutputDependsOnOwnFile ==
    \A k \in 1..Len(fileRec) :
        Persisted(k) =>
            /\ DocOf(k).input_file = set_files[k]
            /\ disk.npy[set_files[k].stem] \in
                  {SeededDraw(fileRec[k].n_times, fileRec[k].n_epochs),
                   [shape |-> <<fileRec[k].n_sources, fileRec[k].n_times, fileRec[k].n_epochs>>,
                    values |-> <<fileRec[k].signal, AppliedLambda2>>]}
            /\ \A j \in StartsOf(DocOf(k).processing_log) :
                  DocOf(k).processing_log[j].details.file = set_files[k]

-----------------------------------------------------------------------------
(* C14 (as claimed): the metadata document persisted for a file holds the *)
(* complete processing log of that file's run: every entry appended for   *)
(* the file, from "Starting single file processing" to the end of its     *)
(* processing, is in the document, in order.                              *)
C14_PersistedLogComplete ==
    \A k \in 1..Len(fileRec) :
        Persisted(k) =>
            \A j \in RunOf(processing_log, k) :
                processing_log[j].action # "Batch processing completed" =>
                    /\ j <= Len(DocOf(k).processing_log)
                    /\ DocOf(k).processing_log[j] = processing_log[j]

-----------------------------------------------------------------------------
(* C15: for every successfully processed file, reloading the metadata     *)
(* document written for it yields the region-name list, the atlas version *)
(* and the configuration values used for that run.                        *)
C15_MetadataRoundTrip ==
    \A k \in 1..Len(fileRec) :
        Persisted(k) =>
            /\ DocOf(k).atlas_info.region_names = DESIKAN_KILLIANY_REGIONS
            /\ DocOf(k).atlas_info.region_names
                  = results[set_files[k]].metadata.atlas_info.region_names
            /\ DocOf(k).atlas_info.atlas_version = "desikan_killiany_68"
            /\ DocOf(k).atlas_info.atlas_version
                  = results[set_files[k]].metadata.atlas_info.atlas_version
            /\ DocOf(k).configuration = config
            /\ DocOf(k).configuration = results[set_files[k]].metadata.configuration

(* A file processed under a configuration whose montage is given as a     *)
(* nested object was written and reloads to that configuration.           *)
C15_Witness ==
    /\ command = "process" /\ pc = "done" /\ exit_code = 0
    /\ Persisted(1)
    /\ cfgDisk.montage = "wrapped"
    /\ IsDict(DocOf(1).configuration.v["scientific_parameters"].v["montage"])
    /\ DocOf(1).configuration = config

-----------------------------------------------------------------------------
(* C16: the process command exits with code 0 exactly when every          *)
(* submitted file was processed successfully and with a non-zero code     *)
(* when at least one file failed, for single-file and for directory       *)
(* input, in the standalone main and in process_command.                  *)
AllSucceeded ==
    IF command = "cli"
    THEN \A k \in 1..Len(cli_results) : cli_results[k].status = "success"
    ELSE \A k \in 1..Len(set_files) : set_files[k] \in DOMAIN results

Submitted ==
    /\ pc = "done"
    /\ command \in {"process", "cli"}
    /\ set_files # <<>>
    /\ Len(attempts) = Len(set_files)

C16_ExitCodeReflectsFailures ==
    Submitted => (exit_code = 0 <=> AllSucceeded)

-----------------------------------------------------------------------------
(* C17: the forward builder computes the leadfield only when at least 8   *)
(* channels have a montage position after montage attachment.  With 8 or  *)
(* more it proceeds to the leadfield computation; with 7 or fewer it      *)
(* fails with the insufficient-coverage error whose message reports the   *)
(* exact count, and the leadfield computation is not invoked (a leadfield *)
(* computation that would raise leaves no trace).                         *)
HasMontagePosition(name) ==
    \E m \in 1..Len(standard_1020) : upper(name) = upper(standard_1020[m])

MontageCount(file) ==
    Cardinality({k \in 1..Len(file.ch_names) : HasMontagePosition(file.ch_names[k])})

(* The builder got as far as counting the located channels *)
ReachesGate(file) ==
    /\ cfgDisk.montage = "standard_1020"
    /\ file.faults \cap {"fetch", "src", "bem", "make_montage", "rename", "set_montage"} = {}
    /\ file.ch_names # Clashing

AfterForward == InFile /\ fpc \in {"inverse", "atlas", "save", "return"}

ForwardEntries(action) ==
    {processing_log[j].details :
        j \in EntriesFrom(processing_log,
                          LastIndex(processing_log, "Building forward model"), action)}

-----------------------------------------------------------------------------
(* C18: after channel-name reconciliation in the forward builder every    *)
(* recording channel whose upper-cased name equals the upper-cased name   *)
(* of a montage channel carries the montage's spelling (fp1 becomes Fp1), *)
(* every other channel name is unchanged, and the renamings are logged as *)
(* a mapping table exactly when at least one channel was renamed.         *)
Canonical(name) ==
    IF HasMontagePosition(name)
    THEN CHOOSE c \in Range(standard_1020) : upper(c) = upper(name)
    ELSE name

Respelled(file) == {c \in Range(file.ch_names) : Canonical(c) # c}

(* The builder got past rename_channels *)
Reconciled(file) ==
    /\ cfgDisk.montage \in {"standard_1020", "wrapped"}
    /\ file.faults \cap {"fetch", "src", "bem", "make_montage"} = {}
    /\ Respelled(file) # {} => "rename" \notin file.faults
    /\ file.ch_names # Clashing

C18_ChannelReconciliation ==
    (AfterForward /\ Reconciled(cur)) =>
        /\ ForwardEntries("Renamed channels for montage compatibility")
             = IF Respelled(cur) = {} THEN {}
               ELSE {[mappings |-> [c \in Respelled(cur) |-> Canonical(c)]]}
        /\ forward.built =>
              /\ Len(forward.ch_names) = Len(cur.ch_names)
              /\ \A k \in 1..Len(cur.ch_names) :
                    forward.ch_names[k] = Canonical(cur.ch_names[k])

(* A recording with channels "fp1" and "fz": the forward model carries    *)
(* "Fp1" and "Fz", the other names as they were, and the table is logged. *)
C18_Witness ==
    /\ AfterForward
    /\ forward.built
    /\ cur.ch_names = LowerCased
    /\ forward.ch_names[1] = "Fp1"
    /\ forward.ch_names[13] = "Fz"
    /\ forward.ch_names[2] = cur.ch_names[2]
    /\ \E e \in ForwardEntries("Renamed channels for montage compatibility") :
          DOMAIN e.mappings = {"fp1", "fz"} /\ e.mappings["fp1"] = "Fp1"

-----------------------------------------------------------------------------
(* C19: for already-epoched input, preprocessing applies no filter at all *)
(* exactly when the epoch duration is below 2.0 s, and logs the skip;     *)
(* epochs of 2.0 s and longer are filtered, high-pass when the cutoff is  *)
(* above 0 and then low-pass when the cutoff is below Nyquist.            *)
(* Resampling and referencing are decided without regard to the skip.     *)
EpochedPreprocessed ==
    /\ InFile
    /\ cur.reader = "epochs"
    /\ fpc \in {"forward", "inverse", "atlas", "save", "return"}

(* Number of channels that are not named HEOG or VEOG *)
Ocular(file) == {k \in 1..Len(file.ch_names) : file.ch_names[k] \in {"HEOG", "VEOG"}}
EegRemaining(file) == Len(file.ch_names) - Cardinality(Ocular(file))

FiltersDue(file) ==
    (IF cfgDisk.highpass_freq > 0 THEN <<"hp">> ELSE <<>>)
    \o (IF 2 * cfgDisk.lowpass_freq < file.sfreq THEN <<"lp">> ELSE <<>>)

SkipEntries ==
    {processing_log[j].details :
        j \in EntriesFrom(processing_log, LastIndex(processing_log, "Starting preprocessing"),
                          "Skipping filtering for short epochs")}

C19_ShortEpochsUnfiltered ==
    EpochedPreprocessed =>
        /\ cur.epoch_ms < 2000 =>
              /\ data.filters = <<>>
              /\ SkipEntries = {[epoch_duration |-> cur.epoch_ms]}
        /\ cur.epoch_ms >= 2000 =>
              /\ SkipEntries = {}
              /\ cur.faults \cap {"hp", "lp"} = {} => data.filters = FiltersDue(cur)
        /\ Abs(cur.sfreq - cfgDisk.target_srate) > 10 => data.sfreq = cfgDisk.target_srate
        /\ Abs(cur.sfreq - cfgDisk.target_srate) < 10 => data.sfreq = cur.sfreq
        /\ data.reference = IF EegRemaining(cur) > 1 THEN "average" ELSE "none"

(* Epochs of exactly 2.0 s at the target rate: both filters were applied, *)
(* in order, no skip was logged and the rate is unchanged.                *)
C19_Witness ==
    /\ EpochedPreprocessed
    /\ cur.epoch_ms = 2000
    /\ data.filters = <<"hp", "lp">>
    /\ SkipEntries = {}
    /\ data.sfreq = cur.sfreq
    /\ data.reference = "average"

-----------------------------------------------------------------------------
(* C20: preprocessing resamples to the target rate exactly when the input *)
(* sample rate differs from the target by more than 0.1 Hz, for           *)
(* continuous and for epoched input alike: 500 Hz against a 250 Hz target *)
(* resamples, 250.05 Hz against 250 Hz does not, and a difference of      *)
(* exactly 0.1 Hz does not.                                               *)
Preprocessed ==
    /\ InFile
    /\ IF cur.reader = "epochs"
       THEN fpc \in {"forward", "inverse", "atlas", "save", "return"}
       ELSE fpc \in {"epoching", "forward", "inverse", "atlas", "save", "return"}

C20_ResampleBeyondTolerance ==
    Preprocessed =>
        data.sfreq = IF Abs(cur.sfreq - cfgDisk.target_srate) > 10
                     THEN cfgDisk.target_srate
                     ELSE cur.sfreq

-----------------------------------------------------------------------------
(* C21: a failure of the high-pass or of the low-pass filter, for         *)
(* continuous and for epoched input, never makes the file fail: it        *)
(* becomes a warning plus a log entry, preprocessing goes on to           *)
(* resampling, and the data handed on is the unfiltered input, with no    *)
(* filter left partially applied.                                         *)
FilterErrors == {"highpass filter failed", "lowpass filter failed"}

FilterFailureEntries ==
    EntriesFrom(processing_log, LastIndex(processing_log, "Starting preprocessing"),
                "Filtering failed for epochs")

C21_FilterFailureDegrades ==
    /\ \A j \in 1..Len(processing_log) :
          processing_log[j].action = "Processing failed" =>
             processing_log[j].details.error.msg \notin FilterErrors
    /\ (Preprocessed /\ FilterFailureEntries # {}) =>
          /\ data.filters = <<>>
          /\ \E w \in 1..Len(warned) : warned[w] = <<i, "Epoch filtering failed">>

-----------------------------------------------------------------------------
(* C22: every get_parameter lookup that returns a default instead of a    *)
(* configured value appends exactly one log entry naming section and      *)
(* parameter and carrying the default; a lookup that finds the key        *)
(* appends nothing; a lookup that finds no key and has no default fails   *)
(* with an error and leaves the log unchanged.                            *)
Configured(doc, section, parameter) ==
    \/ section = "scientific_parameters" /\ parameter = "montage" /\ doc.montage # "absent"
    \/ /\ section = "processing_parameters" /\ parameter = "memory_threshold_gb"
       /\ doc.has_memory_threshold

ConfiguredValue(doc, parameter) ==
    IF parameter = "montage"
    THEN Str(IF doc.montage = "wrapped" THEN "standard_1020" ELSE doc.montage)
    ELSE Num(doc.memory_threshold_gb)

Appended(o) == SubSeq(processing_log, o.before + 1, o.after)

C22_DefaultsAreLogged ==
    \A k \in 1..Len(outcomes) :
        LET o == outcomes[k]
        IN  IF Configured(cfgDisk, o.section, o.parameter)
            THEN /\ o.ok
                 /\ o.value = ConfiguredValue(cfgDisk, o.parameter)
                 /\ Appended(o) = <<>>
            ELSE IF o.default # NoneVal
            THEN /\ o.ok
                 /\ o.value = o.default
                 /\ Len(Appended(o)) = 1
                 /\ Appended(o)[1].details
                      = [section |-> o.section, parameter |-> o.parameter,
                         default |-> o.default]
            ELSE /\ ~o.ok
                 /\ o.error.type = "ValueError"
                 /\ Appended(o) = <<>>

(* A lookup of a key that is not configured, with the default 0, followed *)
(* by a lookup of a configured key: one entry from the first, none from   *)
(* the second.                                                            *)
C22_Witness ==
    /\ Len(outcomes) = 2
    /\ ~Configured(cfgDisk, outcomes[1].section, outcomes[1].parameter)
    /\ outcomes[1].default = Num(0)
    /\ outcomes[1].value = Num(0)
    /\ Appended(outcomes[1]) # <<>>
    /\ Configured(cfgDisk, outcomes[2].section, outcomes[2].parameter)
    /\ Appended(outcomes[2]) = <<>>
    /\ Len(processing_log) = 2

-----------------------------------------------------------------------------
(* C23: process_single_file on a path that does not exist raises the      *)
(* file-not-found error itself, not wrapped in another error type,        *)
(* appends a 'Processing failed' entry and writes no output artifact; a   *)
(* path whose suffix is not .set is rejected in the same way with the     *)
(* unsupported-format error, before any reader is called.                 *)
DirectCallReturned == command = "api" /\ pc = "done" /\ fileRec # <<>>

LogActions == {processing_log[j].action : j \in 1..Len(processing_log)}

RejectedWith(type, msg) ==
    /\ last_error.type = type
    /\ last_error.msg = msg
    /\ processing_log[Len(processing_log)]
         = Entry("Processing failed", [error |-> last_error])
    /\ LogActions \cap {"Loading EEGLAB file", "File loaded as epochs",
                        "File loaded as continuous", "File loading failed",
                        "Processing completed successfully"} = {}
    /\ disk = [npy |-> EmptyMap, json |-> EmptyMap]
    /\ results = EmptyMap

C23_MissingOrForeignFile ==
    DirectCallReturned =>
        /\ ~fileRec[1].exists => RejectedWith("FileNotFoundError", "EEG file not found")
        /\ (fileRec[1].exists /\ ~fileRec[1].suffix_ok) =>
              RejectedWith("ValueError", "Expected .set file")

(* A direct call on an existing file that is not a .set file returned     *)
(* with the format error.                                                 *)
C23_Witness ==
    /\ DirectCallReturned
    /\ fileRec[1].exists
    /\ ~fileRec[1].suffix_ok
    /\ last_error.type = "ValueError"
    /\ "Processing failed" \in LogActions

-----------------------------------------------------------------------------
(* C24: the summary returned by a batch run gives the counts of           *)
(* successful and failed files and, for every failed file, its file name  *)
(* and error text; no failed file is missing from the returned summary.   *)
BatchReturned == BatchRun /\ pc = "done" /\ exit_code = 0

(* What process_directory returns: its results dict *)
ReturnedSummary == results

C24_SummaryNamesFailures ==
    BatchReturned =>
        \A k \in 1..Len(set_files) :
            set_files[k] \notin DOMAIN results => set_files[k] \in DOMAIN ReturnedSummary

-----------------------------------------------------------------------------
(* C25: for each file the stages run strictly in the order load/validate, *)
(* preprocess (then epoch synthesis for continuous input), forward-model  *)
(* build, inverse solution, atlas aggregation, save: the entries marking  *)
(* the start of each stage appear in this order, no stage's start entry   *)
(* precedes the entries of the previous stage, and in a batch no entry of *)
(* the next file appears before the current file's terminal entry.        *)
StageOf(action) ==
    CASE action = "Starting single file processing" -> 0
      [] action \in {"Loading EEGLAB file", "File loaded as epochs",
                     "File loaded as continuous", "File loading failed"} -> 1
      [] action \in {"Starting preprocessing", "Skipping filtering for short epochs",
                     "Filtering failed for epochs", "Applied average EEG reference",
                     "Epochs preprocessing completed", "Raw preprocessing completed",
                     "Using pre-epoched data"} -> 2
      [] action \in {"Creating epochs", "Epochs created"} -> 3
      [] action \in {"Building forward model", "Renamed channels for montage compatibility",
                     "Forward model built successfully", "Forward model failed"} -> 4
      [] action \in {"Computing inverse solution", "Applied baseline correction",
                     "Inverse solution computed successfully",
                     "Inverse solution failed"} -> 5
      [] action = "Applying atlas parcellation" -> 6
      [] action = "Results saved" -> 7
      [] action \in Terminal -> 8
      [] OTHER -> 9

StageStarts ==
    <<"Starting single file processing", "Loading EEGLAB file", "Starting preprocessing",
      "Building forward model", "Computing inverse solution", "Applying atlas parcellation",
      "Results saved", "Processing completed successfully">>

(* Position of the entry with this action between positions s and t of    *)
(* the log, 0 if there is none.                                           *)
PositionIn(log, s, t, action) ==
    IF \E j \in s..t : log[j].action = action
    THEN CHOOSE j \in s..t : log[j].action = action
    ELSE 0

C25_StagesInOrder ==
    LET log == processing_log
        starts == StartsOf(log)
        RunStartBefore(t) == CHOOSE s \in starts : s < t /\ \A m \in starts : m < t => m <= s
    IN  /\ \A j \in 1..(Len(log) - 1) :
              j + 1 \notin starts =>
                 /\ StageOf(log[j].action) <= StageOf(log[j + 1].action)
                 /\ log[j].action \in Terminal => StageOf(log[j + 1].action) = 9
        /\ \A j \in starts :
              \/ j = 1
              \/ log[j - 1].action \in Terminal
              \/ StageOf(log[j - 1].action) = 9 /\ starts \cap (1..(j - 1)) = {}
        /\ \A j \in 1..Len(log) :
              log[j].action \in Range(StageStarts) \cup {"Creating epochs"} =>
                 \A m \in (j + 1)..Len(log) :
                     log[m].action = log[j].action => \E s \in starts : j < s /\ s <= m
        /\ \A t \in 1..Len(log) :
              log[t].action = "Processing completed successfully" =>
                 LET s == RunStartBefore(t)
                     at == [n \in 1..Len(StageStarts) |-> PositionIn(log, s, t, StageStarts[n])]
                     ep == PositionIn(log, s, t, "Creating epochs")
                 IN  /\ \A n \in 1..(Len(StageStarts) - 1) : at[n] # 0 /\ at[n] < at[n + 1]
                     /\ log[at[2]].details.file = log[s].details.file
                     /\ ep # 0 <=> PositionIn(log, s, t, "File loaded as continuous") # 0
                     /\ ep # 0 => at[3] < ep /\ ep < at[4]

(* A batch of two files, a continuous one and then an epoched one, both   *)
(* completed: two runs in the log, the second after the first's terminal  *)
(* entry.                                                                 *)
C25_Witness ==
    /\ BatchRun
    /\ pc = "done"
    /\ Len(fileRec) = 2
    /\ fileRec[1].reader = "raw"
    /\ fileRec[2].reader = "epochs"
    /\ Cardinality({j \in 1..Len(processing_log) :
                       processing_log[j].action = "Processing completed successfully"}) = 2
    /\ \E j \in RunOf(processing_log, 1) : processing_log[j].action = "Creating epochs"

-----------------------------------------------------------------------------
(* C26: the processing log is append-only over any sequence of operations *)
(* of a run (configuration load, validation, parameter lookups, any       *)
(* number of successful or failed file pipelines): in every step the log  *)
(* before is a prefix of the log after, so no entry is ever removed,      *)
(* reordered or rewritten.                                                *)
IsPrefix(s, t) == Len(s) <= Len(t) /\ SubSeq(t, 1, Len(s)) = s

C26_LogAppendOnly == [][IsPrefix(processing_log, processing_log')]_vars

(* A batch in which a file failed and a later file succeeded: the log     *)
(* holds the configuration entries and the entries of both runs.          *)
C26_Witness ==
    /\ BatchRun
    /\ pc = "done"
    /\ processing_log[1].action = "Configuration loaded successfully"
    /\ \E j, m \in 1..Len(processing_log) :
          /\ j < m
          /\ processing_log[j].action = "Processing failed"
          /\ processing_log[m].action = "Processing completed successfully"

-----------------------------------------------------------------------------
(* C27: preprocessing, for continuous and for epoched input alike,        *)
(* retypes the channels named exactly HEOG or VEOG out of the EEG set     *)
(* before referencing, and applies the average reference exactly when at  *)
(* least 2 EEG channels remain after that retyping.                       *)
Retyped(d, file) ==
    /\ Len(d.ch_types) = Len(file.ch_names)
    /\ \A k \in 1..Len(file.ch_names) :
          d.ch_types[k] = IF k \in Ocular(file) THEN "eog" ELSE "eeg"

C27_OcularRetypedThenReferenced ==
    Preprocessed =>
        /\ Retyped(data, cur)
        /\ data.reference = IF EegRemaining(cur) >= 2 THEN "average" ELSE "none"

-----------------------------------------------------------------------------
(* C28: the regularization strength applied to the epochs is 1/3.0^2      *)
(* whatever lambda2 the configuration holds.  Two runs on the same file   *)
(* whose configurations differ only in an in-range lambda2 apply the same *)
(* value and produce the same tensor: the tensor is a function of the     *)
(* file alone.  The 'Computing inverse solution' entry of each run        *)
(* records the configured lambda2 and not the value applied.              *)
DiffersInLambda2Only(doc) ==
    /\ doc = [BaseConfig EXCEPT !.lambda2 = doc.lambda2]
    /\ 1 <= doc.lambda2
    /\ doc.lambda2 <= 1000

(* The forward model of the file is built under the base montage *)
ForwardBuilds(file) ==
    /\ file.faults \cap (ForwardFaults \ {"rename"}) = {}
    /\ Respelled(file) # {} => "rename" \notin file.faults /\ file.ch_names # Clashing
    /\ MontageCount(file) >= 8

(* The tensor of a file under any such configuration *)
TensorOf(file) ==
    IF ForwardBuilds(file) /\ ~InverseMustRaise(file)
    THEN [shape |-> <<file.n_sources, file.n_times, file.n_epochs>>,
          values |-> <<file.signal, 1000 \div (3 * 3)>>]
    ELSE SeededDraw(file.n_times, file.n_epochs)

AfterInverse == InFile /\ fpc \in {"atlas", "save", "return"}

C28_AppliedLambda2IsFixed ==
    (AfterInverse /\ DiffersInLambda2Only(cfgDisk)) =>
        /\ source_estimates = TensorOf(cur)
        /\ \A j \in InverseEntries("Computing inverse solution") :
              processing_log[j].details = [lambda2 |-> cfgDisk.lambda2]

(* A run configured with lambda2 = 1.0: the genuine solution was computed *)
(* with 1/9 and the log entry says 1.0.                                   *)
C28_Witness ==
    /\ AfterInverse
    /\ cfgDisk.lambda2 = 1000
    /\ DiffersInLambda2Only(cfgDisk)
    /\ forward.built
    /\ Len(source_estimates.values) = 2
    /\ source_estimates.values[2] = 111
    /\ \E j \in InverseEntries("Computing inverse solution") :
          processing_log[j].details.lambda2 = 1000

-----------------------------------------------------------------------------
(* C29: within one batch distinct input files are written to distinct     *)
(* output artifacts: no file's array or metadata document is overwritten  *)
(* by another file of the batch, recursive mode with equal base names in  *)
(* different subdirectories included, so that after the batch every       *)
(* successful file's artifacts hold that file's own data.                 *)
Successful(k) == k \in 1..Len(set_files) /\ set_files[k] \in DOMAIN results

C29_DistinctArtifacts ==
    (BatchRun /\ pc = "done") =>
        \A k \in 1..Len(set_files) :
            Successful(k) =>
                /\ set_files[k].stem \in DOMAIN disk.json \cap DOMAIN disk.npy
                /\ DocOf(k).input_file = set_files[k]
                /\ \A m \in 1..Len(set_files) :
                      (Successful(m) /\ m # k) =>
                         /\ results[set_files[m]].atlas_timecourses_file
                              # results[set_files[k]].atlas_timecourses_file
                         /\ results[set_files[m]].metadata_file
                              # results[set_files[k]].metadata_file

-----------------------------------------------------------------------------
(* C30: a result returned by process_single_file for one file is not      *)
(* changed by anything done afterwards: while further files are processed *)
(* with the same processor, the metadata of every earlier result (its     *)
(* processing log and configuration) stays equal to what it was when      *)
(* returned and equal to the document persisted for that file.            *)
(* The log a returned metadata holds now: the live list where the dict    *)
(* holds the list itself.                                                 *)
HeldLog(md) ==
    IF md.processing_log = LiveLog THEN processing_log ELSE md.processing_log
(* The log as it was when the k-th file's call returned: everything up to *)
(* the completion entry of its run.                                       *)
ReturnPoint(k) ==
    LET ends == {j \in RunOf(processing_log, k) :
                    processing_log[j].action = "Processing completed successfully"}
    IN  IF ends = {} THEN 0 ELSE CHOOSE j \in ends : \A m \in ends : m <= j
LogAtReturn(k) == SubSeq(processing_log, 1, ReturnPoint(k))

C30_ReturnedResultIsStable ==
    command = "process" =>
        \A k \in 1..Len(fileRec) :
            Persisted(k) =>
                LET md == results[set_files[k]].metadata
                IN  /\ HeldLog(md) = LogAtReturn(k)
                    /\ HeldLog(md) = DocOf(k).processing_log
                    /\ md.configuration = config
                    /\ md.configuration = DocOf(k).configuration

=============================================================================
